---- MODULE Spec2Model ----
(***************************************************************************)
(* Trace-driven multi-level cache simulator: MemoryManager (paged memory), *)
(* Cache (set-associative, write-back/write-allocate, LRU or FIFO, victim  *)
(* cache, fetch entry for the prefetcher) and CacheHierarchy (L1 -> L2 ->  *)
(* L3 -> memory, stride prefetcher).                                       *)
(*                                                                         *)
(* The geometry is scaled down so that the state space is finite and small *)
(* (addresses are AddrBits wide instead of 32, blocks are 2^OffsetBits     *)
(* bytes instead of 64, caches hold a handful of blocks); every address    *)
(* computation is done modulo 2^AddrBits exactly where the source computes *)
(* in uint32_t.  Latencies are the source's.                               *)
(***************************************************************************)
EXTENDS Integers, Sequences, FiniteSets, TLC

(* ------------------------------ bounds -------------------------------- *)
\* width of an address (uint32_t in the source)
AddrBits == 5
\* log2 of the block size of the default hierarchy (64 bytes in the source)
OffsetBits == 1
\* log2 of the number of second-level entries of the page table (1024)
SubBits == 1
\* number of operations of a run
MaxOps == 3
\* largest byte value written
MaxByte == 1
\* width of a statistics counter (unsigned in the source)
CounterBits == 24
\* largest small value of a policy field tried at construction
MaxPolicyField == 4
\* largest createdAt / lastReference stamp of a slot offered to the replacement
MaxStamp == 2

AddrSpace == 2 ^ AddrBits
BlockSize == 2 ^ OffsetBits
PageBits == OffsetBits + 1
DirBits == AddrBits - PageBits - SubBits
PageSize == 2 ^ PageBits
CounterMod == 2 ^ CounterBits
Bytes == 0 .. MaxByte
TopAddr == AddrSpace - 1

(* --------------------------- bit arithmetic --------------------------- *)
RECURSIVE BitAnd(_, _)
BitAnd(a, b) ==
  IF a = 0 \/ b = 0 THEN 0
  ELSE (IF a % 2 = 1 /\ b % 2 = 1 THEN 1 ELSE 0) + 2 * BitAnd(a \div 2, b \div 2)

RECURSIVE BitOr(_, _)
BitOr(a, b) ==
  IF a = 0 THEN b
  ELSE IF b = 0 THEN a
  ELSE (IF a % 2 = 1 \/ b % 2 = 1 THEN 1 ELSE 0) + 2 * BitOr(a \div 2, b \div 2)

\* x << k and x >> k on an AddrBits-wide unsigned word
Shl(x, k) == (x * (2 ^ k)) % AddrSpace
Shr(x, k) == x \div (2 ^ k)

(* ---------------------------- MemoryManager --------------------------- *)
\* memory[i] is <<>> (nullptr) or a table; memory[i][j] is <<>> (nullptr) or a page
GetFirstEntryId(addr) == Shr(addr, SubBits + PageBits) % (2 ^ DirBits)
GetSecondEntryId(addr) == Shr(addr, PageBits) % (2 ^ SubBits)
GetPageOffset(addr) == addr % PageSize

NewMemory == [i \in 1 .. 2 ^ DirBits |-> << >>]

IsAddrExist(m, addr) ==
  LET i == GetFirstEntryId(addr) + 1
      j == GetSecondEntryId(addr) + 1
  IN  m[i] # << >> /\ m[i][j] # << >>

IsPageExist(m, addr) == IsAddrExist(m, addr)

\* variant of AddPage: a page that exists is zeroed again
AddPageClearing(m, addr) ==
  LET i == GetFirstEntryId(addr) + 1
      j == GetSecondEntryId(addr) + 1
      m1 == IF m[i] = << >>
            THEN [m EXCEPT ![i] = [k \in 1 .. 2 ^ SubBits |-> << >>]]
            ELSE m
  IN  [m |-> [m1 EXCEPT ![i][j] = [k \in 1 .. PageSize |-> 0]],
       ret |-> m1[i][j] = << >>]

\* [m |-> memory after the call, ret |-> the value returned]
AddPage(m, addr) ==
  LET i == GetFirstEntryId(addr) + 1
      j == GetSecondEntryId(addr) + 1
      m1 == IF m[i] = << >>
            THEN [m EXCEPT ![i] = [k \in 1 .. 2 ^ SubBits |-> << >>]]
            ELSE m
  IN  IF m1[i][j] = << >>
      THEN [m |-> [m1 EXCEPT ![i][j] = [k \in 1 .. PageSize |-> 0]], ret |-> TRUE]
      ELSE [m |-> m1, ret |-> FALSE]

\* variant of MemSetByte: a missing page is allocated for the byte
MemSetByteAllocating(m, addr, val) ==
  [m |-> [AddPage(m, addr).m EXCEPT
            ![GetFirstEntryId(addr) + 1][GetSecondEntryId(addr) + 1]
             [GetPageOffset(addr) + 1] = val],
   ret |-> IsAddrExist(m, addr)]

MemSetByte(m, addr, val) ==
  IF ~IsAddrExist(m, addr)
  THEN [m |-> m, ret |-> FALSE]
  ELSE [m |-> [m EXCEPT ![GetFirstEntryId(addr) + 1][GetSecondEntryId(addr) + 1]
                           [GetPageOffset(addr) + 1] = val],
        ret |-> TRUE]

MemGetByte(m, addr) ==
  IF ~IsAddrExist(m, addr)
  THEN 0
  ELSE m[GetFirstEntryId(addr) + 1][GetSecondEntryId(addr) + 1][GetPageOffset(addr) + 1]

(* ------------------------------- Policy ------------------------------- *)
L1Policy ==
  [cacheSize |-> 2 * BlockSize, blockSize |-> BlockSize, blockNum |-> 2,
   associativity |-> 1, hitLatency |-> 1, missLatency |-> 8]
L2Policy ==
  [cacheSize |-> 4 * BlockSize, blockSize |-> BlockSize, blockNum |-> 4,
   associativity |-> 2, hitLatency |-> 8, missLatency |-> 20]
L3Policy ==
  [cacheSize |-> 8 * BlockSize, blockSize |-> BlockSize, blockNum |-> 8,
   associativity |-> 4, hitLatency |-> 20, missLatency |-> 100]
\* the policy setVictimCache builds: fully associative, its block size a literal
VictimCachePolicy ==
  [cacheSize |-> 2 * BlockSize, blockSize |-> BlockSize, blockNum |-> 2,
   associativity |-> 2, hitLatency |-> 1, missLatency |-> 8]

IsPowerOfTwo(n) == n > 0 /\ BitAnd(n, n - 1) = 0

RECURSIVE BitWidth(_)
BitWidth(val) == IF val = 0 THEN 0 ELSE 1 + BitWidth(val \div 2)

\* static_cast<uint32_t>(-1) for 0
Log2i(val) == IF val = 0 THEN AddrSpace - 1 ELSE BitWidth(val) - 1

\* `a % b` on uint32_t.  With b = 0 the behaviour is undefined: the division
\* traps (-1 here), or, on hardware whose division by zero yields zero, the
\* remainder is the dividend.
Rem(a, b) == IF b = 0 THEN {-1, a} ELSE {a % b}

\* Cache::isPolicyValid: all five conditions are evaluated before the first is
\* tested; blockNum * blockSize is a uint32_t product.  The outcomes.
IsPolicyValid(p) ==
  {IF r1 = -1 \/ r2 = -1 THEN "trap"
   ELSE IF /\ IsPowerOfTwo(p.cacheSize)
           /\ IsPowerOfTwo(p.blockSize)
           /\ r1 = 0
           /\ (p.blockNum * p.blockSize) % AddrSpace = p.cacheSize
           /\ r2 = 0
        THEN "valid"
        ELSE "invalid" :
   r1 \in Rem(p.cacheSize, p.blockSize), r2 \in Rem(p.blockNum, p.associativity)}

(* -------------------------- address decoding -------------------------- *)
\* The outcome of 1U << 32 in the build that runs.  getTag computes its mask as
\* (1U << (32 - offsetBits - idBits)) - 1; with blockSize = 1 and a single set
\* the shift count is the width of the word, which is undefined: the count
\* wraps and the mask is 1 - 1 = 0 (shiftWraps), or the shift gives 0 and the
\* mask is all ones.  It is fixed for a run.
VARIABLES shiftWraps

GetTag(p, addr) ==
  LET offsetBits == Log2i(p.blockSize)
      idBits == Log2i(p.blockNum \div p.associativity)
      mask == IF offsetBits + idBits = 0 /\ shiftWraps
              THEN 0
              ELSE 2 ^ (AddrBits - offsetBits - idBits) - 1
  IN  BitAnd(Shr(addr, offsetBits + idBits), mask)

\* variant of GetId: the set is taken one bit higher, so that two neighbouring
\* lines share a set
GetIdNeighboursShare(p, addr) ==
  LET offsetBits == Log2i(p.blockSize)
      idBits == Log2i(p.blockNum \div p.associativity)
      mask == 2 ^ idBits - 1
  IN  BitAnd(Shr(addr, offsetBits + 1), mask)

GetId(p, addr) ==
  LET offsetBits == Log2i(p.blockSize)
      idBits == Log2i(p.blockNum \div p.associativity)
      mask == 2 ^ idBits - 1
  IN  BitAnd(Shr(addr, offsetBits), mask)

GetOffset(p, addr) ==
  LET bits == Log2i(p.blockSize)
      mask == 2 ^ bits - 1
  IN  BitAnd(addr, mask)

GetAddr(p, block) ==
  LET offsetBits == Log2i(p.blockSize)
      idBits == Log2i(p.blockNum \div p.associativity)
  IN  BitOr(Shl(block.tag, offsetBits + idBits), Shl(block.id, offsetBits))

(* -------------------------------- Cache ------------------------------- *)
NewStatistics ==
  [numRead |-> 0, numWrite |-> 0, numHit |-> 0, numMiss |-> 0, totalCycles |-> 0]

\* variant of NewCache: slot idx is given the set id idx
NewCacheFlatIds(policy, lower, isInstr) ==
  [referenceCounter |-> 0,
   lowerCache |-> lower,
   victimCache |-> "null",
   policy |-> policy,
   statistics |-> [numRead |-> 0, numWrite |-> 0, numHit |-> 0, numMiss |-> 0,
                   totalCycles |-> 0],
   enableFifo |-> FALSE,
   enableVictimCache |-> FALSE,
   isInstruction |-> isInstr,
   dirtyEvictions |-> 0,
   blocks |-> [idx \in 1 .. policy.blockNum |->
                [valid |-> FALSE, modified |-> FALSE, tag |-> 0,
                 id |-> idx - 1,
                 size |-> policy.blockSize, lastReference |-> 0, createdAt |-> 0,
                 data |-> [k \in 1 .. policy.blockSize |-> 0]]]]

\* Cache::Cache for a valid policy.  isInstruction tells the InstructionCache
\* subclass, whose writeBlockToLowerLevel is empty.  dirtyEvictions is a history
\* field (not program state): the number of valid modified blocks replaced.
NewCache(policy, lower, isInstr) ==
  [referenceCounter |-> 0,
   lowerCache |-> lower,
   victimCache |-> "null",
   policy |-> policy,
   statistics |-> NewStatistics,
   enableFifo |-> FALSE,
   enableVictimCache |-> FALSE,
   isInstruction |-> isInstr,
   dirtyEvictions |-> 0,
   blocks |-> [idx \in 1 .. policy.blockNum |->
                [valid |-> FALSE, modified |-> FALSE, tag |-> 0,
                 id |-> (idx - 1) \div policy.associativity,
                 size |-> policy.blockSize, lastReference |-> 0, createdAt |-> 0,
                 data |-> [k \in 1 .. policy.blockSize |-> 0]]]]

\* Cache::getBlockId: the slot index (from 0), -1 when absent, -2 for the
\* "Inconsistent ID" exception
RECURSIVE ScanSet(_, _, _, _, _)
ScanSet(c, tag, idx, i, end) ==
  IF i >= end THEN -1
  ELSE IF c.blocks[i + 1].id # idx THEN -2
  ELSE IF c.blocks[i + 1].valid /\ c.blocks[i + 1].tag = tag THEN i
  ELSE ScanSet(c, tag, idx, i + 1, end)

GetBlockId(c, addr) ==
  LET tag == GetTag(c.policy, addr)
      idx == GetId(c.policy, addr)
  IN  ScanSet(c, tag, idx, idx * c.policy.associativity,
              (idx + 1) * c.policy.associativity)

\* Cache::getReplacementBlockId over the slots begin .. end-1
RECURSIVE FirstInvalid(_, _, _)
FirstInvalid(c, i, end) ==
  IF i >= end THEN -1
  ELSE IF ~c.blocks[i + 1].valid THEN i
  ELSE FirstInvalid(c, i + 1, end)

RECURSIVE MinCreatedAt(_, _, _, _, _)
MinCreatedAt(c, i, end, blockId, minCreatedAt) ==
  IF i >= end THEN blockId
  ELSE IF c.blocks[i + 1].createdAt < minCreatedAt
       THEN MinCreatedAt(c, i + 1, end, i, c.blocks[i + 1].createdAt)
       ELSE MinCreatedAt(c, i + 1, end, blockId, minCreatedAt)

\* variant of MinLastReference: a tie moves the choice to the later slot
RECURSIVE MinLastReferenceLatest(_, _, _, _, _)
MinLastReferenceLatest(c, i, end, resultId, min) ==
  IF i >= end THEN resultId
  ELSE IF c.blocks[i + 1].lastReference <= min
       THEN MinLastReferenceLatest(c, i + 1, end, i, c.blocks[i + 1].lastReference)
       ELSE MinLastReferenceLatest(c, i + 1, end, resultId, min)

RECURSIVE MinLastReference(_, _, _, _, _)
MinLastReference(c, i, end, resultId, min) ==
  IF i >= end THEN resultId
  ELSE IF c.blocks[i + 1].lastReference < min
       THEN MinLastReference(c, i + 1, end, i, c.blocks[i + 1].lastReference)
       ELSE MinLastReference(c, i + 1, end, resultId, min)

GetReplacementBlockId(c, begin, end) ==
  IF FirstInvalid(c, begin, end) # -1 THEN FirstInvalid(c, begin, end)
  ELSE IF c.enableFifo
       THEN MinCreatedAt(c, begin + 1, end, begin, c.blocks[begin + 1].createdAt)
       ELSE MinLastReference(c, begin, end, begin, c.blocks[begin + 1].lastReference)

(* ----------------------- operations on a world ------------------------- *)
\* A world is [caches, memory, fault]: the Cache objects by name, the
\* MemoryManager they share, and the exception in flight ("none" when none).
\* Every operation returns the world it leaves; an exception ends the operation
\* and keeps what was changed before it was thrown.
Raise(w, f) == [w EXCEPT !.fault = f]

\* ++statistics.numRead / ++statistics.numWrite
CountAccess(w, n, isRead) ==
  IF isRead
  THEN [w EXCEPT !.caches[n].statistics.numRead = @ + 1]
  ELSE [w EXCEPT !.caches[n].statistics.numWrite = @ + 1]

\* variant of CountHit: the hit is charged the miss latency
CountHitAtMissLatency(w, n) ==
  [w EXCEPT !.caches[n].statistics.numHit = @ + 1,
            !.caches[n].statistics.totalCycles = @ + w.caches[n].policy.missLatency]

\* ++statistics.numHit; statistics.totalCycles += policy.hitLatency
CountHit(w, n) ==
  [w EXCEPT !.caches[n].statistics.numHit = @ + 1,
            !.caches[n].statistics.totalCycles = @ + w.caches[n].policy.hitLatency]

\* variant of CountMiss: the latency is added, the miss is not counted
CountMissUncounted(w, n) ==
  [w EXCEPT !.caches[n].statistics.totalCycles = @ + w.caches[n].policy.missLatency]

\* ++statistics.numMiss; statistics.totalCycles += policy.missLatency
CountMiss(w, n) ==
  [w EXCEPT !.caches[n].statistics.numMiss = @ + 1,
            !.caches[n].statistics.totalCycles = @ + w.caches[n].policy.missLatency]

\* for (i = begin; i < end; ++i) data[i - begin] = memoryManager->getByte(i)
RECURSIVE CopyFromMemory(_, _, _, _, _)
CopyFromMemory(m, begin, i, end, data) ==
  IF i >= end THEN data
  ELSE CopyFromMemory(m, begin, i + 1, end,
                      [data EXCEPT ![i - begin + 1] = MemGetByte(m, i)])

\* for (i = 0; i < size; ++i) memoryManager->setByte(addrBegin + i, data[i])
RECURSIVE WriteToMemory(_, _, _, _, _)
WriteToMemory(m, addrBegin, i, size, data) ==
  IF i >= size THEN m
  ELSE WriteToMemory(MemSetByte(m, (addrBegin + i) % AddrSpace, data[i + 1]).m,
                     addrBegin, i + 1, size, data)

\* the world after memoryManager->getByte or setByte was called on the size
\* addresses from addrBegin: invalidAccess records a call on an address that
\* has no page ("Byte read to invalid addr", "Byte write to invalid addr")
NoteMemoryAccess(w, addrBegin, size) ==
  [w EXCEPT !.invalidAccess =
     @ \/ \E i \in 0 .. size - 1 : ~IsAddrExist(w.memory, (addrBegin + i) % AddrSpace)]

RECURSIVE GetByte(_, _, _)
RECURSIVE SetByte(_, _, _, _)
RECURSIVE LoadBlockFromLowerLevel(_, _, _, _)
RECURSIVE WriteBlockToLowerLevel(_, _, _)
RECURSIVE CopyFromCache(_, _, _, _, _, _)
RECURSIVE WriteToCache(_, _, _, _, _, _)

\* one turn of the loop below, r the result of getByte
CopyStep(r, src, begin, i, end, data) ==
  CopyFromCache(r.w, src, begin, i + 1, end, [data EXCEPT ![i - begin + 1] = r.val])

\* for (i = begin; i < end; ++i) data[i - begin] = src->getByte(i)
CopyFromCache(w, src, begin, i, end, data) ==
  IF i >= end \/ w.fault # "none" THEN [w |-> w, data |-> data]
  ELSE CopyStep(GetByte(w, src, i), src, begin, i, end, data)

\* for (i = 0; i < size; ++i) dst->setByte(addrBegin + i, data[i])
WriteToCache(w, dst, addrBegin, i, size, data) ==
  IF i >= size \/ w.fault # "none" THEN w
  ELSE WriteToCache(SetByte(w, dst, (addrBegin + i) % AddrSpace, data[i + 1]),
                    dst, addrBegin, i + 1, size, data)

\* Cache::inCache
InCache(c, addr) == GetBlockId(c, addr) # -1

\* Cache::setInvalid
SetInvalid(w, n, addr) ==
  LET blockId == GetBlockId(w.caches[n], addr)
  IN  IF w.fault # "none" THEN w
      ELSE IF blockId = -2 THEN Raise(w, "InconsistentId")
      ELSE IF blockId # -1
           THEN [w EXCEPT !.caches[n].blocks[blockId + 1].valid = FALSE]
           ELSE w

\* variant of ReadBlock: the byte is returned, the block is not touched
ReadBlockUntouched(w, n, blockId, offset) ==
  [w |-> w, val |-> w.caches[n].blocks[blockId + 1].data[offset + 1]]

\* getByte on the block found: blocks[blockId].lastReference = referenceCounter;
\* return blocks[blockId].data[offset]
ReadBlock(w, n, blockId, offset) ==
  [w |-> [w EXCEPT !.caches[n].blocks[blockId + 1].lastReference =
                      w.caches[n].referenceCounter],
   val |-> w.caches[n].blocks[blockId + 1].data[offset + 1]]

\* getByte after loadBlockFromLowerLevel has returned w
GetByteLoaded(w, n, addr) ==
  LET blockId == GetBlockId(w.caches[n], addr)
  IN  IF w.fault # "none" THEN [w |-> w, val |-> 0]
      ELSE IF blockId = -2 THEN [w |-> Raise(w, "InconsistentId"), val |-> 0]
      ELSE IF blockId # -1
           THEN ReadBlock(w, n, blockId, GetOffset(w.caches[n].policy, addr))
      ELSE [w |-> Raise(w, "NotInTopLevel"), val |-> 0]

\* getByte after ++referenceCounter
GetByteCounted(w, n, addr) ==
  LET blockId == GetBlockId(w.caches[n], addr)
  IN  IF blockId = -2 THEN [w |-> Raise(w, "InconsistentId"), val |-> 0]
      ELSE IF blockId # -1
           THEN ReadBlock(w, n, blockId, GetOffset(w.caches[n].policy, addr))
      ELSE GetByteLoaded(LoadBlockFromLowerLevel(w, n, addr, TRUE), n, addr)

\* Cache::getByte: [w, val]
GetByte(w, n, addr) ==
  IF w.fault # "none" THEN [w |-> w, val |-> 0]
  ELSE GetByteCounted([w EXCEPT !.caches[n].referenceCounter = @ + 1], n, addr)

\* variant of StoreBlock: the block is marked and touched, the byte is not stored
StoreBlockMarkOnly(w, n, blockId, offset, val) ==
  [w EXCEPT !.caches[n].blocks[blockId + 1].modified = TRUE,
            !.caches[n].blocks[blockId + 1].lastReference =
               w.caches[n].referenceCounter]

\* variant of StoreBlock: the byte is written through to the lower level too
StoreBlockThrough(w, n, blockId, offset, val) ==
  WriteBlockToLowerLevel(
    [w EXCEPT !.caches[n].blocks[blockId + 1].modified = TRUE,
              !.caches[n].blocks[blockId + 1].lastReference =
                 w.caches[n].referenceCounter,
              !.caches[n].blocks[blockId + 1].data[offset + 1] = val],
    n, [w.caches[n].blocks[blockId + 1] EXCEPT !.data[offset + 1] = val])

\* setByte on the block found: modified = true; lastReference =
\* referenceCounter; data[offset] = val
StoreBlock(w, n, blockId, offset, val) ==
  [w EXCEPT !.caches[n].blocks[blockId + 1].modified = TRUE,
            !.caches[n].blocks[blockId + 1].lastReference =
               w.caches[n].referenceCounter,
            !.caches[n].blocks[blockId + 1].data[offset + 1] = val]

\* setByte after loadBlockFromLowerLevel has returned w
SetByteLoaded(w, n, addr, val) ==
  LET blockId == GetBlockId(w.caches[n], addr)
  IN  IF w.fault # "none" THEN w
      ELSE IF blockId = -2 THEN Raise(w, "InconsistentId")
      ELSE IF blockId # -1
           THEN StoreBlock(w, n, blockId, GetOffset(w.caches[n].policy, addr), val)
      ELSE Raise(w, "NotInTopLevel")

\* setByte after ++referenceCounter
SetByteCounted(w, n, addr, val) ==
  LET blockId == GetBlockId(w.caches[n], addr)
  IN  IF blockId = -2 THEN Raise(w, "InconsistentId")
      ELSE IF blockId # -1
           THEN StoreBlock(w, n, blockId, GetOffset(w.caches[n].policy, addr), val)
      ELSE SetByteLoaded(LoadBlockFromLowerLevel(w, n, addr, FALSE), n, addr, val)

\* Cache::setByte
SetByte(w, n, addr, val) ==
  IF w.fault # "none" THEN w
  ELSE SetByteCounted([w EXCEPT !.caches[n].referenceCounter = @ + 1], n, addr, val)

\* variant of WriteBlockToLowerLevel: the victim cache is passed over
WriteBlockPastVictim(w, n, block) ==
  LET c == w.caches[n]
      addrBegin == GetAddr(c.policy, block)
  IN  IF c.isInstruction THEN w
      ELSE IF c.lowerCache # "null"
           THEN WriteToCache(w, c.lowerCache, addrBegin, 0, block.size, block.data)
      ELSE [NoteMemoryAccess(w, addrBegin, block.size) EXCEPT
              !.memory = WriteToMemory(w.memory, addrBegin, 0, block.size, block.data)]

\* variant of WriteBlockToLowerLevel: the write-back is counted as a write of
\* the cache written to (++lowerCache->statistics.numWrite)
WriteBlockCounted(w, n, block) ==
  LET c == w.caches[n]
      toVictim == c.enableVictimCache /\ c.victimCache # "null"
      addrBegin == GetAddr(c.policy, block)
      dst == IF toVictim THEN c.victimCache ELSE c.lowerCache
  IN  IF c.isInstruction THEN w
      ELSE IF dst # "null"
           THEN WriteToCache(CountAccess(w, dst, FALSE), dst, addrBegin, 0, block.size,
                             block.data)
      ELSE [NoteMemoryAccess(w, addrBegin, block.size) EXCEPT
              !.memory = WriteToMemory(w.memory, addrBegin, 0, block.size, block.data)]

\* Cache::writeBlockToLowerLevel (empty in InstructionCache): to the victim
\* cache when there is one, else to the lower cache, else to the memory
WriteBlockToLowerLevel(w, n, block) ==
  LET c == w.caches[n]
      toVictim == c.enableVictimCache /\ c.victimCache # "null"
      addrBegin == GetAddr(c.policy, block)
  IN  IF c.isInstruction THEN w
      ELSE IF toVictim \/ c.lowerCache # "null"
           THEN WriteToCache(w, IF toVictim THEN c.victimCache ELSE c.lowerCache,
                             addrBegin, 0, block.size, block.data)
      ELSE [NoteMemoryAccess(w, addrBegin, block.size) EXCEPT
              !.memory = WriteToMemory(w.memory, addrBegin, 0, block.size, block.data)]

\* variant of ProbeHit: the victim cache keeps the line it gave back
ProbeHitKeeping(copied, v, blockAddrBegin) ==
  [w |-> copied.w, data |-> copied.data, hit |-> TRUE]

\* the end of a victim hit: victimCache->setInvalid(blockAddrBegin)
ProbeHit(copied, v, blockAddrBegin) ==
  [w |-> SetInvalid(copied.w, v, blockAddrBegin), data |-> copied.data, hit |-> TRUE]

\* variant of VictimProbe: a victim hit is moved from the parent's misses to
\* its hits when it happens, instead of in getStatistics
VictimProbeAdjustingParent(w, n, blockAddrBegin, loopEnd, isRead, data) ==
  LET v == w.caches[n].victimCache
      w1 == CountAccess(w, v, isRead)
      blockId == GetBlockId(w1.caches[v], blockAddrBegin)
  IN  IF ~w.caches[n].enableVictimCache THEN [w |-> w, data |-> data, hit |-> FALSE]
      ELSE IF blockId = -2
           THEN [w |-> Raise(w1, "InconsistentId"), data |-> data, hit |-> FALSE]
      ELSE IF blockId # -1
           THEN ProbeHit(CopyFromCache(
                           [CountHit(w1, v) EXCEPT
                              !.caches[n].statistics.numMiss = @ - 1,
                              !.caches[n].statistics.numHit = @ + 1],
                           v, blockAddrBegin, blockAddrBegin, loopEnd, data),
                         v, blockAddrBegin)
      ELSE [w |-> CountMiss(w1, v), data |-> data, hit |-> FALSE]

\* loadBlockFromLowerLevel, the victim cache part: [w, data, hit]
VictimProbe(w, n, blockAddrBegin, loopEnd, isRead, data) ==
  LET v == w.caches[n].victimCache
      w1 == CountAccess(w, v, isRead)
      blockId == GetBlockId(w1.caches[v], blockAddrBegin)
  IN  IF ~w.caches[n].enableVictimCache THEN [w |-> w, data |-> data, hit |-> FALSE]
      ELSE IF blockId = -2
           THEN [w |-> Raise(w1, "InconsistentId"), data |-> data, hit |-> FALSE]
      ELSE IF blockId # -1
           THEN ProbeHit(CopyFromCache(CountHit(w1, v), v, blockAddrBegin,
                                       blockAddrBegin, loopEnd, data),
                         v, blockAddrBegin)
      ELSE [w |-> CountMiss(w1, v), data |-> data, hit |-> FALSE]

\* loadBlockFromLowerLevel, the lower level part: [w, data]
LowerFill(w, n, blockAddrBegin, loopEnd, isRead, data) ==
  LET l == w.caches[n].lowerCache
      w1 == CountAccess(w, l, isRead)
      blockId == GetBlockId(w1.caches[l], blockAddrBegin)
  IN  IF w.fault # "none" THEN [w |-> w, data |-> data]
      ELSE IF l # "null"
           THEN CopyFromCache(
                  IF blockId = -2 THEN Raise(w1, "InconsistentId")
                  ELSE IF blockId # -1 THEN CountHit(w1, l)
                  ELSE LoadBlockFromLowerLevel(CountMiss(w1, l), l, blockAddrBegin,
                                               isRead),
                  l, blockAddrBegin, blockAddrBegin, loopEnd, data)
      ELSE [w |-> NoteMemoryAccess(w, blockAddrBegin,
                                   IF loopEnd > blockAddrBegin
                                   THEN loopEnd - blockAddrBegin ELSE 0),
            data |-> CopyFromMemory(w.memory, blockAddrBegin, blockAddrBegin, loopEnd,
                                    data)]

\* statistics.totalCycles += policy.missLatency after the write-back
ChargeWriteBack(w, n) ==
  IF w.fault # "none" THEN w
  ELSE [w EXCEPT !.caches[n].statistics.totalCycles =
                    @ + w.caches[n].policy.missLatency,
                 !.caches[n].dirtyEvictions = @ + 1]

\* variant of Evict: a clean block is dropped, not given to the victim cache
EvictDroppingClean(w, n, replaceBlock) ==
  IF w.fault # "none" \/ ~replaceBlock.valid THEN w
  ELSE IF replaceBlock.modified
       THEN ChargeWriteBack(WriteBlockToLowerLevel(w, n, replaceBlock), n)
  ELSE w

\* loadBlockFromLowerLevel, the replaced block
Evict(w, n, replaceBlock) ==
  LET c == w.caches[n]
  IN  IF w.fault # "none" \/ ~replaceBlock.valid THEN w
      ELSE IF replaceBlock.modified
           THEN ChargeWriteBack(WriteBlockToLowerLevel(w, n, replaceBlock), n)
      ELSE IF c.enableVictimCache /\ c.victimCache # "null"
           THEN WriteToCache(w, c.victimCache, GetAddr(c.policy, replaceBlock), 0,
                             replaceBlock.size, replaceBlock.data)
      ELSE w

\* blocks[replacedBlockIdx] = newBlock
InstallBlock(w, n, replacedBlockIdx, newBlock) ==
  IF w.fault # "none" THEN w
  ELSE [w EXCEPT !.caches[n].blocks[replacedBlockIdx + 1] = newBlock]

\* loadBlockFromLowerLevel once the data is there: filled = [w, data]
LoadFilled(filled, n, replacedBlockIdx, replaceBlock, newBlock) ==
  InstallBlock(Evict(filled.w, n, replaceBlock), n, replacedBlockIdx,
               [newBlock EXCEPT !.data = filled.data])

\* loadBlockFromLowerLevel after the victim cache part: if (!readFromVictimCache)
LoadProbed(fromVictim, n, blockAddrBegin, loopEnd, isRead, replacedBlockIdx, replaceBlock, newBlock) ==
  LoadFilled(IF fromVictim.hit THEN [w |-> fromVictim.w, data |-> fromVictim.data]
             ELSE LowerFill(fromVictim.w, n, blockAddrBegin, loopEnd, isRead,
                            fromVictim.data),
             n, replacedBlockIdx, replaceBlock, newBlock)

\* Cache::loadBlockFromLowerLevel
LoadBlockFromLowerLevel(w, n, addr, isRead) ==
  LET c == w.caches[n]
      blockSize == c.policy.blockSize
      newBlock == [valid |-> TRUE, modified |-> FALSE, tag |-> GetTag(c.policy, addr),
                   id |-> GetId(c.policy, addr), size |-> blockSize,
                   lastReference |-> c.referenceCounter,
                   createdAt |-> c.referenceCounter,
                   data |-> [k \in 1 .. blockSize |-> 0]]
      bits == Log2i(blockSize)
      blockAddrBegin == addr - (addr % (2 ^ bits))
      \* blockAddrBegin + blockSize in uint32_t: 0 for the last block
      loopEnd == (blockAddrBegin + blockSize) % AddrSpace
      idx == GetId(c.policy, addr)
      blockIdBegin == idx * c.policy.associativity
      blockIdEnd == (idx + 1) * c.policy.associativity
      replacedBlockIdx == GetReplacementBlockId(c, blockIdBegin, blockIdEnd)
  IN  IF w.fault # "none" THEN w
      ELSE LoadProbed(VictimProbe(w, n, blockAddrBegin, loopEnd, isRead, newBlock.data),
                      n, blockAddrBegin, loopEnd, isRead, replacedBlockIdx,
                      c.blocks[replacedBlockIdx + 1], newBlock)

\* variant of Fetch: the test of the lookup is inverted
FetchInverted(w, n, addr) ==
  LET blockId == GetBlockId(w.caches[n], addr)
  IN  IF w.fault # "none" THEN w
      ELSE IF blockId >= 0 THEN LoadBlockFromLowerLevel(w, n, addr, TRUE)
      ELSE w

\* Cache::fetch
Fetch(w, n, addr) ==
  LET blockId == GetBlockId(w.caches[n], addr)
  IN  IF w.fault # "none" THEN w
      ELSE IF blockId = -2 THEN Raise(w, "InconsistentId")
      ELSE IF blockId = -1 THEN LoadBlockFromLowerLevel(w, n, addr, TRUE)
      ELSE w

\* variant of Read: a read of a resident line is counted as a miss
ReadCountingMiss(w, n, addr) ==
  LET w1 == CountAccess(w, n, TRUE)
      blockId == GetBlockId(w.caches[n], addr)
  IN  IF w.fault # "none" THEN [w |-> w, val |-> 0]
      ELSE IF blockId = -2 THEN [w |-> Raise(w1, "InconsistentId"), val |-> 0]
      ELSE GetByte(CountMiss(w1, n), n, addr)

\* Cache::read: [w, val]
Read(w, n, addr) ==
  LET w1 == CountAccess(w, n, TRUE)
      blockId == GetBlockId(w.caches[n], addr)
  IN  IF w.fault # "none" THEN [w |-> w, val |-> 0]
      ELSE IF blockId = -2 THEN [w |-> Raise(w1, "InconsistentId"), val |-> 0]
      ELSE GetByte(IF blockId # -1 THEN CountHit(w1, n) ELSE CountMiss(w1, n), n, addr)

\* Cache::write
Write(w, n, addr, val) ==
  LET w1 == CountAccess(w, n, FALSE)
      blockId == GetBlockId(w.caches[n], addr)
  IN  IF w.fault # "none" THEN w
      ELSE IF blockId = -2 THEN Raise(w1, "InconsistentId")
      ELSE SetByte(IF blockId # -1 THEN CountHit(w1, n) ELSE CountMiss(w1, n),
                   n, addr, val)

\* variant of GetStatistics: the misses are adjusted, the hits are not
GetStatisticsMissOnly(w, n) ==
  LET c == w.caches[n]
  IN  IF c.enableVictimCache /\ c.victimCache # "null"
      THEN [c.statistics EXCEPT
              !.numMiss = (@ - w.caches[c.victimCache].statistics.numHit) % CounterMod]
      ELSE c.statistics

\* Cache::getStatistics: the subtraction and the addition are unsigned
GetStatistics(w, n) ==
  LET c == w.caches[n]
      stats == c.statistics
  IN  IF c.enableVictimCache /\ c.victimCache # "null"
      THEN [stats EXCEPT
              !.numMiss = (@ - w.caches[c.victimCache].statistics.numHit) % CounterMod,
              !.numHit = (@ + w.caches[c.victimCache].statistics.numHit) % CounterMod]
      ELSE stats

\* Cache::setVictimCache: the victim cache shares n's lower cache
SetVictimCache(w, n, enable) ==
  IF enable
  THEN [w EXCEPT !.caches =
          [x \in DOMAIN w.caches \cup {"V"} |->
             IF x = "V" THEN NewCache(VictimCachePolicy, w.caches[n].lowerCache, FALSE)
             ELSE IF x = n THEN [w.caches[n] EXCEPT !.enableVictimCache = TRUE,
                                                    !.victimCache = "V"]
             ELSE w.caches[x]]]
  ELSE [w EXCEPT !.caches[n].enableVictimCache = FALSE,
                 !.caches[n].victimCache = "null"]

\* variant of InCacheCall: the lookup touches the block like an access
InCacheCallTouching(w, n, addr) ==
  LET blockId == GetBlockId(w.caches[n], addr)
      rc == w.caches[n].referenceCounter + 1
  IN  IF blockId >= 0
      THEN [w |-> [w EXCEPT !.caches[n].referenceCounter = rc,
                            !.caches[n].blocks[blockId + 1].lastReference = rc],
            val |-> TRUE]
      ELSE [w |-> w, val |-> FALSE]

\* a call of Cache::inCache from outside: [w, val]
InCacheCall(w, n, addr) ==
  IF GetBlockId(w.caches[n], addr) = -2
  THEN [w |-> Raise(w, "InconsistentId"), val |-> FALSE]
  ELSE [w |-> w, val |-> InCache(w.caches[n], addr)]

(* --------------------------- CacheHierarchy --------------------------- *)
NewPrefetchStatistics ==
  [isPrefetching |-> FALSE, stride |-> 0, sameStrideCount |-> 0,
   diffStrideCount |-> 0, lastAccessAddress |-> 0]

\* CacheHierarchy::CacheHierarchy: the caches of the chain
HierarchyCaches ==
  [n \in {"L1", "L2", "L3"} |->
     IF n = "L3" THEN NewCache(L3Policy, "null", FALSE)
     ELSE IF n = "L2" THEN NewCache(L2Policy, "L3", FALSE)
     ELSE NewCache(L1Policy, "L2", FALSE)]

\* variant of TrackStride: the prefetcher switches at the third stride already
TrackStrideEager(w, ps, addr) ==
  LET currentStride == (addr - ps.lastAccessAddress) % AddrSpace
      ps1 == IF currentStride = ps.stride
             THEN [ps EXCEPT !.sameStrideCount = @ + 1, !.diffStrideCount = 0]
             ELSE [ps EXCEPT !.diffStrideCount = @ + 1, !.sameStrideCount = 0,
                             !.stride = currentStride]
      ps2 == IF ps1.sameStrideCount >= 3 THEN [ps1 EXCEPT !.isPrefetching = TRUE]
             ELSE ps1
      ps3 == IF ps2.diffStrideCount >= 3 THEN [ps2 EXCEPT !.isPrefetching = FALSE]
             ELSE ps2
  IN  IF w.fault # "none" THEN [w |-> w, ps |-> ps]
      ELSE [w |-> w, ps |-> [ps3 EXCEPT !.lastAccessAddress = addr]]

\* the stride bookkeeping of processMemoryAccess, w the world after the fetch
TrackStride(w, ps, addr) ==
  LET \* the difference as int32_t; strides are kept as residues
      currentStride == (addr - ps.lastAccessAddress) % AddrSpace
      ps1 == IF currentStride = ps.stride
             THEN [ps EXCEPT !.sameStrideCount = @ + 1, !.diffStrideCount = 0]
             ELSE [ps EXCEPT !.diffStrideCount = @ + 1, !.sameStrideCount = 0,
                             !.stride = currentStride]
      ps2 == IF ps1.sameStrideCount > 3 THEN [ps1 EXCEPT !.isPrefetching = TRUE]
             ELSE ps1
      ps3 == IF ps2.diffStrideCount > 3 THEN [ps2 EXCEPT !.isPrefetching = FALSE]
             ELSE ps2
  IN  IF w.fault # "none" THEN [w |-> w, ps |-> ps]
      ELSE [w |-> w, ps |-> [ps3 EXCEPT !.lastAccessAddress = addr]]

\* the fetch of the variant below, tracked = [w, ps] the result of the bookkeeping
FetchTracked(tracked, addr) ==
  [w |-> IF tracked.ps.isPrefetching
         THEN Fetch([tracked.w EXCEPT
                       !.memory = AddPage(tracked.w.memory,
                                          (addr + tracked.ps.stride) % AddrSpace).m],
                    "L1", (addr + tracked.ps.stride) % AddrSpace)
         ELSE tracked.w,
   ps |-> tracked.ps]

\* variant of PrefetchStep: the bookkeeping comes first, the fetch follows it
PrefetchStepAfterUpdate(w, ps, addr) == FetchTracked(TrackStride(w, ps, addr), addr)

\* variant of PrefetchStep: the page of the prefetch address is not allocated
PrefetchStepUnallocated(w, ps, addr) ==
  TrackStride(IF ps.isPrefetching
              THEN Fetch(w, "L1", (addr + ps.stride) % AddrSpace)
              ELSE w,
              ps, addr)

\* the prefetcher part of processMemoryAccess: [w, ps]
PrefetchStep(w, ps, addr) ==
  LET prefetchAddr == (addr + ps.stride) % AddrSpace
      m1 == IF ~IsPageExist(w.memory, prefetchAddr)
            THEN AddPage(w.memory, prefetchAddr).m
            ELSE w.memory
  IN  TrackStride(IF ps.isPrefetching
                  THEN Fetch([w EXCEPT !.memory = m1], "L1", prefetchAddr)
                  ELSE w,
                  ps, addr)

\* the switch of processMemoryAccess, pf = [w, ps] the result of the part before
AccessLevelOne(pf, h, operation, addr) ==
  LET h1 == [h EXCEPT !.prefetchStatistics = pf.ps]
  IN  IF pf.w.fault # "none" THEN [w |-> pf.w, h |-> h1]
      ELSE IF operation = "r" THEN [w |-> Read(pf.w, "L1", addr).w, h |-> h1]
      ELSE IF operation = "w" THEN [w |-> Write(pf.w, "L1", addr, 0), h |-> h1]
      ELSE [w |-> Raise(pf.w, "IllegalOperation"), h |-> h1]

\* CacheHierarchy::processMemoryAccess: [w, h]
ProcessMemoryAccess(w, h, operation, addr) ==
  LET m1 == IF ~IsPageExist(w.memory, addr) THEN AddPage(w.memory, addr).m
            ELSE w.memory
      w1 == [w EXCEPT !.memory = m1]
  IN  AccessLevelOne(IF h.enablePrefetch
                     THEN PrefetchStep(w1, h.prefetchStatistics, addr)
                     ELSE [w |-> w1, ps |-> h.prefetchStatistics],
                     h, operation, addr)

\* a call of Cache::getStatistics from outside (a const method): [w, val]
GetStatisticsCall(w, n) == [w |-> w, val |-> GetStatistics(w, n)]

(* ------------------------------ the system ---------------------------- *)
\* caches, memory, fault: the world.  hierarchy: the CacheHierarchy's own fields.
\* opCount: operations so far.  last: the operation that led here.  written:
\* history, for each address the byte of the latest write(a, v) on L1 whose line
\* has stayed in L1 since, or -1.  trace: history, the calls so far.  installed:
\* history, for each line the number of the call that last brought it into L1
\* (0: none).  invalidAccess: history, whether getByte or setByte of the memory
\* was ever called on an address without page.
VARIABLES caches, memory, fault, hierarchy, opCount, last, written, trace, installed,
          invalidAccess

vars ==
  <<caches, memory, fault, hierarchy, opCount, last, written, trace, installed,
    shiftWraps, invalidAccess>>

World ==
  [caches |-> caches, memory |-> memory, fault |-> fault, invalidAccess |-> invalidAccess]

\* addresses of a run: one in set 0, three lines of the last L1 set (the last
\* one is the last block of the address space), at offsets 0 and blockSize-1
Addrs ==
  {0, TopAddr - 2 * L1Policy.cacheSize - (BlockSize - 1),
   TopAddr - L1Policy.cacheSize, TopAddr}

\* the base address of addr's line, and the lines of the addresses of a run
LineOf(addr) == addr - (addr % BlockSize)
Lines == {LineOf(a) : a \in Addrs}

Operations == {"r", "w", "x"}

Call(op, addr, val, ret) == [op |-> op, addr |-> addr, val |-> val, ret |-> ret]

NoCall == Call("none", 0, 0, 0)

\* the chain after construction, enableFifo set alike in its caches and, if
\* victim, setVictimCache(true) called on L1
ConfiguredCaches(fifo, victim) ==
  LET plain == [caches |-> [n \in DOMAIN HierarchyCaches |->
                              [HierarchyCaches[n] EXCEPT !.enableFifo = fifo]],
                memory |-> NewMemory, fault |-> "none", invalidAccess |-> FALSE]
  IN  IF victim THEN SetVictimCache(plain, "L1", TRUE).caches ELSE plain.caches

Init ==
  /\ \E fifo \in BOOLEAN, victim \in BOOLEAN : caches = ConfiguredCaches(fifo, victim)
  /\ memory = NewMemory
  /\ fault = "none"
  /\ hierarchy = [enablePrefetch |-> FALSE, prefetchStatistics |-> NewPrefetchStatistics]
  /\ opCount = 0
  /\ last = NoCall
  /\ written = [a \in Addrs |-> -1]
  /\ trace = << >>
  /\ installed = [l \in Lines |-> 0]
  \* no cache of the hierarchy has blockSize = 1 and a single set: the shift
  \* count of getTag stays below the width of the word, the outcome is not used
  /\ shiftWraps = FALSE
  /\ invalidAccess = FALSE

Running == fault = "none" /\ opCount < MaxOps

\* the step to world w by call l; wrote tells a completed write of l.val at l.addr
Commit(w, l, wrote) ==
  /\ caches' = w.caches
  /\ memory' = w.memory
  /\ fault' = w.fault
  /\ opCount' = opCount + 1
  /\ last' = l
  /\ written' = [a \in Addrs |->
                   IF wrote /\ w.fault = "none" /\ a = l.addr THEN l.val
                   ELSE IF ~InCache(w.caches["L1"], a) THEN -1
                   ELSE written[a]]
  /\ trace' = Append(trace, l)
  /\ installed' = [x \in Lines |->
                     IF ~InCache(caches["L1"], x) /\ InCache(w.caches["L1"], x)
                     THEN opCount + 1
                     ELSE installed[x]]
  /\ invalidAccess' = w.invalidAccess
  /\ UNCHANGED shiftWraps

DoRead ==
  \E a \in Addrs :
    LET r == Read(World, "L1", a)
    IN  /\ Running
        /\ Commit(r.w, Call("read", a, 0, r.val), FALSE)
        /\ UNCHANGED hierarchy

DoWrite ==
  \E a \in Addrs, v \in Bytes :
    /\ Running
    /\ Commit(Write(World, "L1", a, v), Call("write", a, v, 0), TRUE)
    /\ UNCHANGED hierarchy

\* ret tells whether the block was absent, so that fetch loaded it
DoFetch ==
  \E a \in Addrs :
    /\ Running
    /\ Commit(Fetch(World, "L1", a),
              Call("fetch", a, 0, ~InCache(caches["L1"], a)), FALSE)
    /\ UNCHANGED hierarchy

DoInCache ==
  \E a \in Addrs :
    LET r == InCacheCall(World, "L1", a)
    IN  /\ Running
        /\ Commit(r.w, Call("inCache", a, 0, r.val), FALSE)
        /\ UNCHANGED hierarchy

DoGetStatistics ==
  LET r == GetStatisticsCall(World, "L1")
  IN  /\ Running
      /\ Commit(r.w, Call("getStatistics", 0, 0, r.val), FALSE)
      /\ UNCHANGED hierarchy

DoProcess ==
  \E operation \in Operations, a \in Addrs :
    LET r == ProcessMemoryAccess(World, hierarchy, operation, a)
    IN  /\ Running
        /\ Commit(r.w, Call("process", a, 0, operation), operation = "w")
        /\ hierarchy' = r.h

Next == DoRead \/ DoWrite \/ DoFetch \/ DoInCache \/ DoGetStatistics \/ DoProcess

Spec == Init /\ [][Next]_vars

Levels == DOMAIN caches
L1 == caches["L1"]
HasVictim == L1.enableVictimCache /\ L1.victimCache # "null"

(* ----------------- construction of a cache from a policy --------------- *)
PolicyValues == (0 .. MaxPolicyField) \cup {2 ^ (AddrBits - 1)}
Policies ==
  [cacheSize : PolicyValues, blockSize : PolicyValues, blockNum : PolicyValues,
   associativity : PolicyValues, hitLatency : {L1Policy.hitLatency},
   missLatency : {L1Policy.missLatency}]

\* no cache yet; last.ret is the policy the constructor is about to be given
InitPolicy ==
  /\ caches = [n \in {} |-> 0]
  /\ memory = NewMemory
  /\ fault = "none"
  /\ hierarchy = [enablePrefetch |-> FALSE, prefetchStatistics |-> NewPrefetchStatistics]
  /\ opCount = 0
  /\ \E p \in Policies : last = Call("policy", 0, 0, p)
  /\ written = [a \in Addrs |-> -1]
  /\ trace = << >>
  /\ installed = [l \in Lines |-> 0]
  /\ shiftWraps \in BOOLEAN
  /\ invalidAccess = FALSE

\* Cache::Cache with lowerCache = nullptr
DoConstruct ==
  /\ last.op = "policy"
  /\ \E outcome \in IsPolicyValid(last.ret) :
       /\ caches' = IF outcome = "valid"
                    THEN [n \in {"L1"} |-> NewCache(last.ret, "null", FALSE)]
                    ELSE caches
       /\ fault' = IF outcome = "valid" THEN "none"
                   ELSE IF outcome = "invalid" THEN "InvalidPolicy"
                   ELSE "DivideByZero"
  /\ opCount' = opCount + 1
  /\ last' = Call("new", 0, 0, last.ret)
  /\ UNCHANGED <<memory, hierarchy, written, trace, installed, shiftWraps, invalidAccess>>

ConstructedRead == "L1" \in DOMAIN caches /\ DoRead
ConstructedWrite == "L1" \in DOMAIN caches /\ DoWrite

NextPolicy == DoConstruct \/ ConstructedRead \/ ConstructedWrite
SpecPolicy == InitPolicy /\ [][NextPolicy]_vars

\* setVictimCache(enable) on the cache constructed
DoSetVictimCache ==
  /\ "L1" \in DOMAIN caches
  /\ Running
  /\ \E enable \in BOOLEAN :
       /\ caches' = SetVictimCache(World, "L1", enable).caches
       /\ last' = Call("setVictimCache", 0, 0, enable)
  /\ opCount' = opCount + 1
  /\ UNCHANGED <<memory, fault, hierarchy, written, trace, installed, shiftWraps, invalidAccess>>

NextVictimPolicy == DoConstruct \/ DoSetVictimCache \/ ConstructedRead \/ ConstructedWrite
SpecVictimPolicy == InitPolicy /\ [][NextVictimPolicy]_vars

(* --------------------- the replacement choice alone -------------------- *)
\* the stamps of a slot: createdAt <= lastReference <= referenceCounter
SlotStamps ==
  {s \in (0 .. MaxStamp) \X (0 .. MaxStamp) : s[1] <= s[2]}
SlotStates ==
  {[valid |-> v, createdAt |-> s[1], lastReference |-> s[2]] :
     v \in BOOLEAN, s \in SlotStamps}

\* an L3 cache one set of which holds the given slots, each with its own tag
CacheWithSet(fifo, set, slots) ==
  LET c == NewCache(L3Policy, "null", FALSE)
      way(i) == (i - 1) % L3Policy.associativity
  IN  [c EXCEPT !.enableFifo = fifo,
                !.referenceCounter = MaxStamp,
                !.blocks = [i \in DOMAIN c.blocks |->
                   IF c.blocks[i].id = set
                   THEN [c.blocks[i] EXCEPT !.valid = slots[way(i)].valid,
                                            !.tag = way(i),
                                            !.createdAt = slots[way(i)].createdAt,
                                            !.lastReference = slots[way(i)].lastReference]
                   ELSE c.blocks[i]]]

\* last.addr and last.val are the begin and the end of the set's slot range
InitRepl ==
  /\ \E fifo \in BOOLEAN,
        set \in 0 .. (L3Policy.blockNum \div L3Policy.associativity) - 1,
        slots \in [0 .. L3Policy.associativity - 1 -> SlotStates] :
       /\ caches = [n \in {"L3"} |-> CacheWithSet(fifo, set, slots)]
       /\ last = Call("set", set * L3Policy.associativity,
                      (set + 1) * L3Policy.associativity, 0)
  /\ memory = NewMemory
  /\ fault = "none"
  /\ hierarchy = [enablePrefetch |-> FALSE, prefetchStatistics |-> NewPrefetchStatistics]
  /\ opCount = 0
  /\ written = [a \in Addrs |-> -1]
  /\ trace = << >>
  /\ installed = [l \in Lines |-> 0]
  /\ shiftWraps = FALSE
  /\ invalidAccess = FALSE

\* the call of getReplacementBlockId in loadBlockFromLowerLevel
DoReplace ==
  /\ last.op = "set"
  /\ last' = Call("replace", last.addr, last.val,
                  GetReplacementBlockId(caches["L3"], last.addr, last.val))
  /\ opCount' = opCount + 1
  /\ UNCHANGED <<caches, memory, fault, hierarchy, written, trace, installed, shiftWraps, invalidAccess>>

NextRepl == DoReplace
SpecRepl == InitRepl /\ [][NextRepl]_vars

(* ------------------ one set-associative cache, one set ------------------ *)
\* calls of a run on the single cache
MaxAssocOps == 4

\* the addresses of Addrs that share a set of the two-way policy
AssocAddrs == {a \in Addrs : GetId(L2Policy, a) = GetId(L2Policy, TopAddr)}

RECURSIVE WithPages(_, _)
WithPages(m, as) ==
  IF as = {} THEN m
  ELSE LET a == CHOOSE x \in as : TRUE
       IN  WithPages(AddPage(m, a).m, as \ {a})

\* DataCache(&memoryManager, policy, nullptr) with a two-way policy, enableFifo
\* set and, if victim, setVictimCache(true) called; the pages of the addresses
\* exist
AssocCaches(fifo, victim) ==
  LET plain == [caches |-> [n \in {"L1"} |->
                              [NewCache(L2Policy, "null", FALSE) EXCEPT
                                 !.enableFifo = fifo]],
                memory |-> NewMemory, fault |-> "none", invalidAccess |-> FALSE]
  IN  IF victim THEN SetVictimCache(plain, "L1", TRUE).caches ELSE plain.caches

InitAssoc ==
  /\ \E fifo \in BOOLEAN, victim \in BOOLEAN : caches = AssocCaches(fifo, victim)
  /\ memory = WithPages(NewMemory, AssocAddrs)
  /\ fault = "none"
  /\ hierarchy = [enablePrefetch |-> FALSE, prefetchStatistics |-> NewPrefetchStatistics]
  /\ opCount = 0
  /\ last = NoCall
  /\ written = [a \in Addrs |-> -1]
  /\ trace = << >>
  /\ installed = [l \in Lines |-> 0]
  /\ shiftWraps = FALSE
  /\ invalidAccess = FALSE

AssocRunning == fault = "none" /\ opCount < MaxAssocOps

AssocRead ==
  \E a \in AssocAddrs :
    LET r == Read(World, "L1", a)
    IN  /\ AssocRunning
        /\ Commit(r.w, Call("read", a, 0, r.val), FALSE)
        /\ UNCHANGED hierarchy

AssocWrite ==
  \E a \in AssocAddrs :
    /\ AssocRunning
    /\ Commit(Write(World, "L1", a, MaxByte), Call("write", a, MaxByte, 0), TRUE)
    /\ UNCHANGED hierarchy

AssocFetch ==
  \E a \in AssocAddrs :
    /\ AssocRunning
    /\ Commit(Fetch(World, "L1", a),
              Call("fetch", a, 0, ~InCache(caches["L1"], a)), FALSE)
    /\ UNCHANGED hierarchy

NextAssoc == AssocRead \/ AssocWrite \/ AssocFetch
SpecAssoc == InitAssoc /\ [][NextAssoc]_vars

(* --------------------------- the memory alone -------------------------- *)
\* two addresses of a page, one of the next page of the same table, one of
\* another table
MemAddrs == {0, 1, PageSize, TopAddr}

InitMemory ==
  /\ caches = [n \in {} |-> 0]
  /\ memory = NewMemory
  /\ fault = "none"
  /\ hierarchy = [enablePrefetch |-> FALSE, prefetchStatistics |-> NewPrefetchStatistics]
  /\ opCount = 0
  /\ last = NoCall
  /\ written = [a \in Addrs |-> -1]
  /\ trace = << >>
  /\ installed = [l \in Lines |-> 0]
  /\ shiftWraps = FALSE
  /\ invalidAccess = FALSE

\* the step of the memory to m by call l
CommitMemory(m, l) ==
  /\ opCount < MaxOps
  /\ memory' = m
  /\ opCount' = opCount + 1
  /\ last' = l
  /\ trace' = Append(trace, l)
  /\ invalidAccess' = (invalidAccess \/ (l.op \in {"getByte", "setByte"}
                                        /\ ~IsAddrExist(memory, l.addr)))
  /\ UNCHANGED <<caches, fault, hierarchy, written, installed, shiftWraps>>

DoAddPage ==
  \E a \in MemAddrs :
    LET r == AddPage(memory, a)
    IN  CommitMemory(r.m, Call("addPage", a, 0, r.ret))

DoSetByte ==
  \E a \in MemAddrs, v \in Bytes :
    LET r == MemSetByte(memory, a, v)
    IN  CommitMemory(r.m, Call("setByte", a, v, r.ret))

DoGetByte ==
  \E a \in MemAddrs :
    CommitMemory(memory, Call("getByte", a, 0, MemGetByte(memory, a)))

NextMemory == DoAddPage \/ DoSetByte \/ DoGetByte
SpecMemory == InitMemory /\ [][NextMemory]_vars

(* ------------------------ the stride prefetcher ------------------------ *)
\* accesses of a run of the hierarchy
MaxStrideOps == 8

\* two lines, so that the deltas of successive accesses can repeat and change
StrideAddrs == {0, BlockSize}

InitStride ==
  /\ caches = HierarchyCaches
  /\ memory = NewMemory
  /\ fault = "none"
  /\ \E enable \in BOOLEAN :
       hierarchy = [enablePrefetch |-> enable,
                    prefetchStatistics |-> NewPrefetchStatistics]
  /\ opCount = 0
  /\ last = NoCall
  /\ written = [a \in Addrs |-> -1]
  /\ trace = << >>
  /\ installed = [l \in Lines |-> 0]
  /\ shiftWraps = FALSE
  /\ invalidAccess = FALSE

DoAccess ==
  \E operation \in {"r", "w"}, a \in StrideAddrs :
    LET r == ProcessMemoryAccess(World, hierarchy, operation, a)
    IN  /\ fault = "none"
        /\ opCount < MaxStrideOps
        /\ Commit(r.w, Call("process", a, 0, operation), operation = "w")
        /\ hierarchy' = r.h

NextStride == DoAccess
SpecStride == InitStride /\ [][NextStride]_vars

(* ------------------- read traces with prefetch enabled ----------------- *)
\* accesses of a trace, and the last line a trace reads
MaxTraceOps == 5
MaxTraceLine == 4

\* the first bytes of the lines 0 .. MaxTraceLine (0, 0x40, 0x80, ... in the source)
TraceAddrs == {k * BlockSize : k \in 0 .. MaxTraceLine}

InitTrace ==
  /\ caches = HierarchyCaches
  /\ memory = NewMemory
  /\ fault = "none"
  /\ hierarchy = [enablePrefetch |-> TRUE, prefetchStatistics |-> NewPrefetchStatistics]
  /\ opCount = 0
  /\ last = NoCall
  /\ written = [a \in Addrs |-> -1]
  /\ trace = << >>
  /\ installed = [l \in Lines |-> 0]
  /\ shiftWraps = FALSE
  /\ invalidAccess = FALSE

\* a line "r addr" of the trace
DoTraceRead ==
  \E a \in TraceAddrs :
    LET r == ProcessMemoryAccess(World, hierarchy, "r", a)
    IN  /\ fault = "none"
        /\ opCount < MaxTraceOps
        /\ Commit(r.w, Call("process", a, 0, "r"), FALSE)
        /\ hierarchy' = r.h

NextTrace == DoTraceRead
SpecTrace == InitTrace /\ [][NextTrace]_vars

(* ------------- traces with a line of an unknown operation ------------- *)
\* the hierarchy of SpecTrace, the prefetcher enabled or not
InitIllegal ==
  /\ caches = HierarchyCaches
  /\ memory = NewMemory
  /\ fault = "none"
  /\ \E enablePrefetch \in BOOLEAN :
       hierarchy = [enablePrefetch |-> enablePrefetch,
                    prefetchStatistics |-> NewPrefetchStatistics]
  /\ opCount = 0
  /\ last = NoCall
  /\ written = [a \in Addrs |-> -1]
  /\ trace = << >>
  /\ installed = [l \in Lines |-> 0]
  /\ shiftWraps = FALSE
  /\ invalidAccess = FALSE

\* a line "x addr" of the trace: processMemoryAccess with an operation that is
\* neither 'r' nor 'w'
DoTraceIllegal ==
  \E a \in TraceAddrs :
    LET r == ProcessMemoryAccess(World, hierarchy, "x", a)
    IN  /\ fault = "none"
        /\ opCount < MaxTraceOps
        /\ Commit(r.w, Call("process", a, 0, "x"), FALSE)
        /\ hierarchy' = r.h

NextIllegal == DoTraceRead \/ DoTraceIllegal
SpecIllegal == InitIllegal /\ [][NextIllegal]_vars

(* ---------- the hierarchy driven by processMemoryAccess alone ---------- *)
\* calls of a run
MaxProcessOps == 5

\* CacheHierarchy(enablePrefetch, enableFifo, enableVictimCache): the three
\* caches are constructed from their policies and chained, the flags are stored
\* in the hierarchy
NewHierarchy(enablePrefetch, enableFifo, enableVictimCache) ==
  [enablePrefetch |-> enablePrefetch,
   enableFifo |-> enableFifo,
   enableVictimCache |-> enableVictimCache,
   prefetchStatistics |-> NewPrefetchStatistics]

\* CacheHierarchy without prefetch, the two other flags either way
InitProcess ==
  /\ caches = HierarchyCaches
  /\ memory = NewMemory
  /\ fault = "none"
  /\ \E enableFifo \in BOOLEAN, enableVictimCache \in BOOLEAN :
       hierarchy = NewHierarchy(FALSE, enableFifo, enableVictimCache)
  /\ opCount = 0
  /\ last = NoCall
  /\ written = [a \in Addrs |-> -1]
  /\ trace = << >>
  /\ installed = [l \in Lines |-> 0]
  /\ shiftWraps = FALSE
  /\ invalidAccess = FALSE

\* processMemoryAccess('r' or 'w', addr)
ProcessAccess ==
  \E operation \in {"r", "w"}, a \in Addrs :
    LET r == ProcessMemoryAccess(World, hierarchy, operation, a)
    IN  /\ fault = "none"
        /\ opCount < MaxProcessOps
        /\ Commit(r.w, Call("process", a, 0, operation), operation = "w")
        /\ hierarchy' = r.h

NextProcess == ProcessAccess
SpecProcess == InitProcess /\ [][NextProcess]_vars

(* ------------- the pages the hierarchy touches (SpecPages) ------------ *)
\* calls of a run
MaxPageOps == 6

\* the first bytes of line 0 and of the last four lines that share its set in
\* L1, L2 and L3: five lines for the four ways of an L3 set, in several pages
PageAddrs == {0} \cup {AddrSpace - k * 2 * BlockSize : k \in 1 .. 4}

\* the default hierarchy, the prefetcher enabled or not, no page allocated
InitPages ==
  /\ caches = HierarchyCaches
  /\ memory = NewMemory
  /\ fault = "none"
  /\ \E enablePrefetch \in BOOLEAN :
       hierarchy = [enablePrefetch |-> enablePrefetch,
                    prefetchStatistics |-> NewPrefetchStatistics]
  /\ opCount = 0
  /\ last = NoCall
  /\ written = [a \in Addrs |-> -1]
  /\ trace = << >>
  /\ installed = [l \in Lines |-> 0]
  /\ shiftWraps = FALSE
  /\ invalidAccess = FALSE

\* processMemoryAccess('w', addr)
PageWrite ==
  \E a \in PageAddrs :
    LET r == ProcessMemoryAccess(World, hierarchy, "w", a)
    IN  /\ fault = "none"
        /\ opCount < MaxPageOps
        /\ Commit(r.w, Call("process", a, 0, "w"), TRUE)
        /\ hierarchy' = r.h

\* processMemoryAccess('r', 0)
PageRead ==
  LET r == ProcessMemoryAccess(World, hierarchy, "r", 0)
  IN  /\ fault = "none"
      /\ opCount < MaxPageOps
      /\ Commit(r.w, Call("process", 0, 0, "r"), FALSE)
      /\ hierarchy' = r.h

NextPages == PageWrite \/ PageRead
SpecPages == InitPages /\ [][NextPages]_vars

(* ------------------ the hierarchy with a victim cache ------------------ *)
\* calls of a run
MaxVictimOps == 4

\* the addresses of Addrs that share a set of the direct-mapped L1, the last
\* address among them
VictimAddrs == {a \in Addrs : GetId(L1Policy, a) = GetId(L1Policy, TopAddr)}

\* the chain with setVictimCache(true) called on L1; the pages of the
\* addresses exist
InitVictim ==
  /\ \E fifo \in BOOLEAN : caches = ConfiguredCaches(fifo, TRUE)
  /\ memory = WithPages(NewMemory, VictimAddrs)
  /\ fault = "none"
  /\ hierarchy = [enablePrefetch |-> FALSE, prefetchStatistics |-> NewPrefetchStatistics]
  /\ opCount = 0
  /\ last = NoCall
  /\ written = [a \in Addrs |-> -1]
  /\ trace = << >>
  /\ installed = [l \in Lines |-> 0]
  /\ shiftWraps = FALSE
  /\ invalidAccess = FALSE

VictimRunning == fault = "none" /\ opCount < MaxVictimOps

VictimRead ==
  \E a \in VictimAddrs :
    LET r == Read(World, "L1", a)
    IN  /\ VictimRunning
        /\ Commit(r.w, Call("read", a, 0, r.val), FALSE)
        /\ UNCHANGED hierarchy

VictimWrite ==
  \E a \in VictimAddrs :
    /\ VictimRunning
    /\ Commit(Write(World, "L1", a, MaxByte), Call("write", a, MaxByte, 0), TRUE)
    /\ UNCHANGED hierarchy

VictimFetch ==
  \E a \in VictimAddrs :
    /\ VictimRunning
    /\ Commit(Fetch(World, "L1", a),
              Call("fetch", a, 0, ~InCache(caches["L1"], a)), FALSE)
    /\ UNCHANGED hierarchy

NextVictim == VictimRead \/ VictimWrite \/ VictimFetch
SpecVictim == InitVictim /\ [][NextVictim]_vars

(* ------------------------- an instruction cache ------------------------ *)
RECURSIVE WithBytes(_, _, _)
\* the memory with the byte val(a) stored at each address a of as
WithBytes(m, as, val) ==
  IF as = {} THEN m
  ELSE LET a == CHOOSE x \in as : TRUE
       IN  WithBytes(MemSetByte(m, a, val[a]).m, as \ {a}, val)

\* InstructionCache(&memoryManager, policy, nullptr), direct-mapped
InstrCaches == [n \in {"L1"} |-> NewCache(L1Policy, "null", TRUE)]

\* the pages of the addresses exist and hold any bytes
InitInstr ==
  /\ caches = InstrCaches
  /\ \E val \in [VictimAddrs -> Bytes] :
       memory = WithBytes(WithPages(NewMemory, VictimAddrs), VictimAddrs, val)
  /\ fault = "none"
  /\ hierarchy = [enablePrefetch |-> FALSE, prefetchStatistics |-> NewPrefetchStatistics]
  /\ opCount = 0
  /\ last = NoCall
  /\ written = [a \in Addrs |-> -1]
  /\ trace = << >>
  /\ installed = [l \in Lines |-> 0]
  /\ shiftWraps = FALSE
  /\ invalidAccess = FALSE

InstrRead ==
  \E a \in VictimAddrs :
    LET r == Read(World, "L1", a)
    IN  /\ Running
        /\ Commit(r.w, Call("read", a, 0, r.val), FALSE)
        /\ UNCHANGED hierarchy

InstrWrite ==
  \E a \in VictimAddrs, v \in Bytes :
    /\ Running
    /\ Commit(Write(World, "L1", a, v), Call("write", a, v, 0), TRUE)
    /\ UNCHANGED hierarchy

NextInstr == InstrRead \/ InstrWrite
SpecInstr == InitInstr /\ [][NextInstr]_vars

(* ------------------------------- claims ------------------------------- *)
Stats(n) == caches[n].statistics
BaseCycles(n) ==
  Stats(n).numHit * caches[n].policy.hitLatency
  + Stats(n).numMiss * caches[n].policy.missLatency

\* C1: in every cache level (L1, L2, L3 and the victim cache when there is one)
\* the stored counters satisfy numHit + numMiss = numRead + numWrite after any
\* sequence of process/read/write/fetch operations.
C1_HitMissBalance ==
  \A n \in Levels :
    Stats(n).numHit + Stats(n).numMiss = Stats(n).numRead + Stats(n).numWrite

\* a fetch served by the victim cache, after a write miss was probed at L2
C1_Witness ==
  /\ HasVictim
  /\ last.op = "fetch"
  /\ Stats("V").numHit > 0
  /\ Stats("L2").numWrite > 0

\* C2: a read(a) returns the byte v of the latest write(a, v) on the same cache
\* whenever a's line has not left the cache since that write.
C2_WriteThenRead ==
  (last.op = "read" /\ written[last.addr] # -1) => last.ret = written[last.addr]

\* write(a, MaxByte), an access to another line, read(a) hitting
C2_Witness ==
  /\ last.op = "read"
  /\ written[last.addr] = MaxByte
  /\ Stats("L1").numMiss = 2
  /\ Stats("L1").numHit = 1

\* C3: in every cache level totalCycles >= numHit*hitLatency + numMiss*missLatency,
\* with equality as long as the level has never replaced a valid modified block.
C3_CycleAccounting ==
  \A n \in Levels :
    /\ Stats(n).totalCycles >= BaseCycles(n)
    /\ caches[n].dirtyEvictions = 0 => Stats(n).totalCycles = BaseCycles(n)

\* a level that replaced a modified block and was charged for it, beside a level
\* that never did and has counted hits and misses
C3_Witness ==
  /\ \E n \in Levels :
       caches[n].dirtyEvictions > 0 /\ Stats(n).totalCycles > BaseCycles(n)
  /\ \E n \in Levels :
       caches[n].dirtyEvictions = 0 /\ Stats(n).numHit > 0 /\ Stats(n).numMiss > 0

\* C4: once fetch(addr) has completed, inCache(addr) is true; the "data not in
\* top level cache" error is never raised.
C4_FetchedIsResident ==
  /\ fault # "NotInTopLevel"
  /\ last.op = "fetch" => (fault = "none" /\ InCache(L1, last.addr))

\* a fetch that had to load the last block of the address space
C4_Witness == last.op = "fetch" /\ last.ret = TRUE /\ last.addr = TopAddr

\* C5 (as claimed): fetch(addr) leaves numRead, numWrite, numHit, numMiss and
\* totalCycles of the cache it is called on unchanged.
C5_FetchKeepsStatistics ==
  [][last'.op = "fetch" => caches'["L1"].statistics = caches["L1"].statistics]_vars

\* the slots of addr's set that are valid and hold addr's tag
MatchingSlots(c, addr) ==
  {i \in 1 .. c.policy.blockNum :
     /\ (i - 1) \div c.policy.associativity = GetId(c.policy, addr)
     /\ c.blocks[i].valid
     /\ c.blocks[i].tag = GetTag(c.policy, addr)}

\* C6: inCache(addr) is true iff some valid slot of addr's set has addr's tag,
\* and a call of it changes no counter, no reference counter, no lastReference
\* or createdAt and no block of any level (nor the memory).
C6_InCachePure ==
  /\ [](\A a \in 0 .. TopAddr : InCache(L1, a) <=> MatchingSlots(L1, a) # {})
  /\ [][last'.op = "inCache" =>
          /\ caches' = caches
          /\ memory' = memory
          /\ fault' = fault
          /\ last'.ret = (MatchingSlots(L1, last'.addr) # {})]_vars

\* a lookup that found the line, with another line valid in the cache
C6_Witness ==
  /\ last.op = "inCache"
  /\ last.ret = TRUE
  /\ \A i \in 1 .. L1.policy.blockNum : L1.blocks[i].valid

\* what C7 says getStatistics returns; the counters are unsigned, so is the
\* arithmetic
ObservedStatistics ==
  IF HasVictim
  THEN [numRead |-> Stats("L1").numRead,
        numWrite |-> Stats("L1").numWrite,
        numHit |-> (Stats("L1").numHit + Stats("V").numHit) % CounterMod,
        numMiss |-> (Stats("L1").numMiss - Stats("V").numHit) % CounterMod,
        totalCycles |-> Stats("L1").totalCycles]
  ELSE Stats("L1")

\* C7: getStatistics() of a cache with a victim cache returns the stored
\* counters with victim.numHit moved from numMiss to numHit, and the stored
\* counters without a victim cache; a call modifies no stored counter.
C7_ObservedStatistics ==
  /\ [](GetStatistics(World, "L1") = ObservedStatistics)
  /\ [][last'.op = "getStatistics" =>
          caches' = caches /\ last'.ret = ObservedStatistics]_vars

\* the victim cache has served a miss of L1, so the two views differ
C7_Witness ==
  /\ HasVictim
  /\ Stats("V").numHit > 0
  /\ Stats("L1").numMiss > Stats("V").numHit
  /\ GetStatistics(World, "L1") # Stats("L1")

\* C8: from one operation to the next none of the stored numRead, numWrite,
\* numHit, numMiss, totalCycles of any cache level decreases.
C8_CountersMonotonic ==
  [][\A n \in DOMAIN caches :
       /\ n \in DOMAIN caches'
       /\ caches'[n].statistics.numRead >= caches[n].statistics.numRead
       /\ caches'[n].statistics.numWrite >= caches[n].statistics.numWrite
       /\ caches'[n].statistics.numHit >= caches[n].statistics.numHit
       /\ caches'[n].statistics.numMiss >= caches[n].statistics.numMiss
       /\ caches'[n].statistics.totalCycles >= caches[n].statistics.totalCycles]_vars

\* a fetch served by the victim cache: a victim hit with no miss counted at L1
C8_Witness ==
  /\ HasVictim
  /\ last.op = "fetch"
  /\ last.ret = TRUE
  /\ Stats("V").numHit > 0
  /\ Stats("L1").numMiss > 0

\* the five checks, read as arithmetic on the numbers of the policy
IsPowerOfTwoNumber(n) == \E k \in 0 .. AddrBits - 1 : n = 2 ^ k
SatisfiesChecks(p) ==
  /\ IsPowerOfTwoNumber(p.cacheSize)
  /\ IsPowerOfTwoNumber(p.blockSize)
  /\ p.cacheSize % p.blockSize = 0
  /\ p.blockNum * p.blockSize = p.cacheSize
  /\ p.associativity # 0
  /\ p.blockNum % p.associativity = 0

\* C9 (as claimed): the construction of a cache fails if and only if its policy
\* violates one of the five checks (cacheSize and blockSize powers of two,
\* cacheSize % blockSize = 0, blockNum * blockSize = cacheSize,
\* blockNum % associativity = 0), and every cache that has processed an access
\* has a policy satisfying them.
C9_ConstructionChecked ==
  /\ last.op = "new" => (fault # "none" <=> ~SatisfiesChecks(last.ret))
  /\ \A n \in DOMAIN caches :
       Stats(n).numRead + Stats(n).numWrite > 0 => SatisfiesChecks(caches[n].policy)

\* the slots of the range begin .. end - 1 of the cache, by what they hold
InvalidSlots(c, begin, end) == {i \in begin .. end - 1 : ~c.blocks[i + 1].valid}
OldestSlots(c, begin, end) ==
  {i \in begin .. end - 1 :
     \A j \in begin .. end - 1 : c.blocks[i + 1].createdAt <= c.blocks[j + 1].createdAt}
LeastRecentSlots(c, begin, end) ==
  {i \in begin .. end - 1 :
     \A j \in begin .. end - 1 :
       c.blocks[i + 1].lastReference <= c.blocks[j + 1].lastReference}
Lowest(S) == CHOOSE i \in S : \A j \in S : i <= j

\* C10: the replacement choice over a set is the lowest invalid slot if there
\* is one; otherwise with FIFO the lowest slot among those of minimum createdAt;
\* otherwise the lowest slot among those of minimum lastReference; it always
\* lies in the set's slot range.
C10_ReplacementChoice ==
  last.op = "replace" =>
    LET c == caches["L3"]
        begin == last.addr
        end == last.val
    IN  /\ last.ret \in begin .. end - 1
        /\ last.ret =
             IF InvalidSlots(c, begin, end) # {}
             THEN Lowest(InvalidSlots(c, begin, end))
             ELSE IF c.enableFifo THEN Lowest(OldestSlots(c, begin, end))
             ELSE Lowest(LeastRecentSlots(c, begin, end))

\* a full second set under LRU whose least recent slots are two, neither the
\* first of the set, while the first is the oldest
C10_Witness ==
  /\ last.op = "replace"
  /\ last.addr > 0
  /\ InvalidSlots(caches["L3"], last.addr, last.val) = {}
  /\ ~caches["L3"].enableFifo
  /\ Cardinality(LeastRecentSlots(caches["L3"], last.addr, last.val)) = 2
  /\ last.addr \notin LeastRecentSlots(caches["L3"], last.addr, last.val)
  /\ last.addr \in OldestSlots(caches["L3"], last.addr, last.val)

(* ---- replacement in a run of calls (SpecAssoc) ---- *)
\* the slots (from 0) of addr's set
SetSlots(c, addr) ==
  {i \in 0 .. c.policy.blockNum - 1 :
     i \div c.policy.associativity = GetId(c.policy, addr)}

SetFull(c, addr) == \A i \in SetSlots(c, addr) : c.blocks[i + 1].valid

\* the slot of addr's set whose line the step replaces by addr's: the others of
\* the set keep their line
Replaces(i, addr) ==
  /\ i \in SetSlots(L1, addr)
  /\ caches'["L1"].blocks[i + 1].valid
  /\ caches'["L1"].blocks[i + 1].tag = GetTag(L1.policy, addr)
  /\ \A j \in SetSlots(L1, addr) \ {i} :
       /\ caches'["L1"].blocks[j + 1].valid
       /\ caches'["L1"].blocks[j + 1].tag = L1.blocks[j + 1].tag

\* the step is a call of one of ops that misses in a full set and completes
MissInFullSet(ops) ==
  /\ last'.op \in ops
  /\ opCount' = opCount + 1
  /\ fault' = "none"
  /\ ~InCache(L1, last'.addr)
  /\ SetFull(L1, last'.addr)

TraceOf(ops) == \A k \in 1 .. Len(trace) : trace[k].op \in ops

RECURSIVE LastIn(_, _, _)
\* the number of the latest of the first k calls that is one of ops on the line, 0 if none
LastIn(ops, line, k) ==
  IF k = 0 THEN 0
  ELSE IF trace[k].op \in ops /\ LineOf(trace[k].addr) = line THEN k
  ELSE LastIn(ops, line, k - 1)

LastAccess(line) == LastIn({"read", "write"}, line, Len(trace))

\* C11: with FIFO disabled, in a run of reads and writes on a cache, a miss in
\* a full set replaces the line of the set whose latest read or write is the
\* oldest.
C11_LeastRecentlyUsedReplaced ==
  [][(/\ ~L1.enableFifo
      /\ TraceOf({"read", "write"})
      /\ MissInFullSet({"read", "write"}))
     => \E i \in SetSlots(L1, last'.addr) :
          /\ Replaces(i, last'.addr)
          /\ \A j \in SetSlots(L1, last'.addr) \ {i} :
               LastAccess(GetAddr(L1.policy, L1.blocks[i + 1]))
                 < LastAccess(GetAddr(L1.policy, L1.blocks[j + 1]))]_vars

\* two lines are brought in, the first is hit again, a third replaces the second
C11_Witness ==
  /\ ~L1.enableFifo
  /\ fault = "none"
  /\ TraceOf({"read", "write"})
  /\ Len(trace) = 4
  /\ installed[LineOf(trace[1].addr)] = 1
  /\ installed[LineOf(trace[2].addr)] = 2
  /\ LineOf(trace[3].addr) = LineOf(trace[1].addr)
  /\ installed[LineOf(trace[4].addr)] = 4
  /\ InCache(L1, trace[1].addr)
  /\ ~InCache(L1, trace[2].addr)

\* C12: with FIFO enabled, in a run of reads, writes and fetches, a miss in a
\* full set replaces the line of the set that was installed earliest, and a hit
\* does not change which line of the set is replaced next.
C12_EarliestInstalledReplaced ==
  [][/\ (/\ L1.enableFifo
         /\ MissInFullSet({"read", "write", "fetch"}))
        => \E i \in SetSlots(L1, last'.addr) :
             /\ Replaces(i, last'.addr)
             /\ \A j \in SetSlots(L1, last'.addr) \ {i} :
                  installed[GetAddr(L1.policy, L1.blocks[i + 1])]
                    < installed[GetAddr(L1.policy, L1.blocks[j + 1])]
     /\ (/\ L1.enableFifo
         /\ last'.op \in {"read", "write", "fetch"}
         /\ opCount' = opCount + 1
         /\ InCache(L1, last'.addr))
        => LET begin == GetId(L1.policy, last'.addr) * L1.policy.associativity
           IN  GetReplacementBlockId(caches'["L1"], begin,
                                     begin + L1.policy.associativity)
                 = GetReplacementBlockId(L1, begin, begin + L1.policy.associativity)]_vars

(* ---- write-back on replacement (Spec) ---- *)
\* the byte cache c holds for addr, -1 when addr's line is not in c
ByteAt(c, addr) ==
  LET blockId == GetBlockId(c, addr)
  IN  IF blockId < 0 THEN -1
      ELSE c.blocks[blockId + 1].data[GetOffset(c.policy, addr) + 1]

\* the step is a call on L1 that completes and loads addr's line
LoadsLine ==
  /\ opCount' = opCount + 1
  /\ fault' = "none"
  /\ last'.op \in {"read", "write", "fetch", "process"}
  /\ ~InCache(L1, last'.addr)
  /\ InCache(caches'["L1"], last'.addr)

\* what the call itself adds to L1's totalCycles on a miss
MissCycles == IF last'.op = "fetch" THEN 0 ELSE L1.policy.missLatency

\* the line x was in L1 in slot i and the step replaces it
ReplacedLine(x, i) ==
  /\ GetBlockId(L1, x) = i
  /\ ~InCache(caches'["L1"], x)

\* the bytes of block are held by cache dst at line x after the step
HoldsBlock(dst, x, block) ==
  \A k \in 0 .. block.size - 1 : ByteAt(caches'[dst], x + k) = block.data[k + 1]

\* a load at L1 that replaces a block leaves the block's bytes in cache dst
\* when the block was modified, and L1's totalCycles grows by one missLatency
\* more exactly then
WriteBackTo(dst) ==
  LoadsLine =>
    /\ \A x \in Lines, i \in 0 .. L1.policy.blockNum - 1 :
         (ReplacedLine(x, i) /\ L1.blocks[i + 1].modified)
           => /\ HoldsBlock(dst, x, L1.blocks[i + 1])
              /\ caches'["L1"].statistics.totalCycles
                   = L1.statistics.totalCycles + MissCycles + L1.policy.missLatency
    /\ (\A x \in Lines, i \in 0 .. L1.policy.blockNum - 1 :
          ReplacedLine(x, i) => ~L1.blocks[i + 1].modified)
         => caches'["L1"].statistics.totalCycles
              = L1.statistics.totalCycles + MissCycles

VictimOrNextLevel == IF HasVictim THEN L1.victimCache ELSE L1.lowerCache

\* C13 as stated: a load that replaces a valid modified block of L1 leaves every
\* byte of the block in the next level L2 at the block's base address and adds
\* one missLatency to L1's totalCycles; replacing an invalid or clean block adds
\* nothing.
C13_WriteBackToNextLevel == [][WriteBackTo(L1.lowerCache)]_vars

\* C13 amended: the bytes are left in the victim cache when L1 has one, in L2
\* otherwise; the cycles as stated.
C13_WriteBackToVictimOrNextLevel == [][WriteBackTo(VictimOrNextLevel)]_vars

\* a modified line has just been replaced in L1 and its written byte is in
\* the victim cache
C13_Witness ==
  /\ fault = "none"
  /\ HasVictim
  /\ L1.dirtyEvictions > 0
  /\ installed[LineOf(last.addr)] = opCount
  /\ \E a \in Addrs : /\ ~InCache(L1, a)
                       /\ ByteAt(caches[L1.victimCache], a) = MaxByte

(* ---- write-back only (Spec) ---- *)
\* the step is a completed read or write on L1 of an address whose line is in L1
HitsInLevelOne ==
  /\ opCount' = opCount + 1
  /\ fault' = "none"
  /\ last'.op \in {"read", "write"}
  /\ InCache(L1, last'.addr)

\* after the step cache n holds addr's line modified, and did not hold it so,
\* or with this byte, before
ReachesLevel(n, addr) ==
  LET before == GetBlockId(caches[n], addr)
      after == GetBlockId(caches'[n], addr)
  IN  /\ after >= 0
      /\ caches'[n].blocks[after + 1].modified
      /\ \/ before < 0
         \/ ~caches[n].blocks[before + 1].modified
         \/ ByteAt(caches'[n], addr) # ByteAt(caches[n], addr)

\* C14: a read or write that hits in L1 leaves every cache below L1 (blocks,
\* statistics, reference counter) and the memory as they are; a byte becomes
\* modified data of L2 only in a step that replaces its modified line in L1.
C14_HitStaysInLevelOne ==
  [][/\ HitsInLevelOne
        => /\ \A n \in Levels \ {"L1"} : caches'[n] = caches[n]
           /\ memory' = memory
     /\ \A a \in Addrs :
          ReachesLevel(L1.lowerCache, a)
            => /\ InCache(L1, a)
               /\ L1.blocks[GetBlockId(L1, a) + 1].modified
               /\ ~InCache(caches'["L1"], a)]_vars

\* a write has hit in L1: the byte is in L1 and L2 still holds the old one
C14_Witness ==
  /\ fault = "none"
  /\ last.op = "write"
  /\ last.val = MaxByte
  /\ 0 < installed[LineOf(last.addr)]
  /\ installed[LineOf(last.addr)] < opCount
  /\ ByteAt(L1, last.addr) = MaxByte
  /\ ByteAt(caches[L1.lowerCache], last.addr) = 0

(* ---- the paged memory (SpecMemory) ---- *)
\* addPage(addr) is among the calls so far
AddedBefore(addr) ==
  \E k \in 1 .. Len(trace) : trace[k].op = "addPage" /\ trace[k].addr = addr

\* C15: addPage(a) called again returns false and leaves the page table and
\* every byte, those written since the first call included, as they are;
\* addPage on a page that does not exist returns true.
C15_AddPageOnce ==
  [][(last'.op = "addPage" /\ opCount' = opCount + 1)
       => /\ AddedBefore(last'.addr) => (last'.ret = FALSE /\ memory' = memory)
          /\ ~IsPageExist(memory, last'.addr) => last'.ret = TRUE]_vars

\* addPage(a), setByte(a, MaxByte), addPage(a): the byte is still there
C15_Witness ==
  /\ Len(trace) = 3
  /\ trace[1].op = "addPage" /\ trace[1].ret = TRUE
  /\ trace[2].op = "setByte" /\ trace[2].val = MaxByte
  /\ trace[3].op = "addPage" /\ trace[3].ret = FALSE
  /\ trace[2].addr = trace[1].addr /\ trace[3].addr = trace[1].addr
  /\ MemGetByte(memory, trace[1].addr) = MaxByte

\* C16: on an address whose page does not exist, setByte returns false and
\* changes nothing of the memory, getByte returns 0 and allocates no page; no
\* error is raised and the run goes on.
C16_MissingPageSoft ==
  [][(opCount' = opCount + 1 /\ ~IsAddrExist(memory, last'.addr))
       => /\ fault' = "none"
          /\ last'.op = "setByte" => (last'.ret = FALSE /\ memory' = memory)
          /\ last'.op = "getByte" => (last'.ret = 0 /\ memory' = memory)]_vars

\* setByte has returned false on a missing page of a table that exists, and a
\* call has followed
C16_Witness ==
  /\ Len(trace) = 3
  /\ trace[1].op = "addPage" /\ trace[1].addr = 0
  /\ trace[2].op = "setByte" /\ trace[2].addr = PageSize /\ trace[2].val = MaxByte
  /\ trace[2].ret = FALSE
  /\ trace[3].op = "getByte" /\ trace[3].addr = PageSize /\ trace[3].ret = 0
  /\ ~IsAddrExist(memory, PageSize)

(* ---- the stride prefetcher (SpecStride) ---- *)
\* the address of the k-th access of the calls t; before the first, 0
AccessAddr(t, k) == IF k = 0 THEN 0 ELSE t[k].addr

\* the delta of the k-th access as a 32-bit difference; before the first, the
\* stride 0 the prefetcher starts with
Delta(t, k) ==
  IF k = 0 THEN 0 ELSE (AccessAddr(t, k) - AccessAddr(t, k - 1)) % AddrSpace

RECURSIVE SameRun(_, _)
\* the number of consecutive accesses up to the k-th whose delta equalled the
\* stride stored before them
SameRun(t, k) ==
  IF k = 0 \/ Delta(t, k) # Delta(t, k - 1) THEN 0 ELSE 1 + SameRun(t, k - 1)

RECURSIVE DiffRun(_, _)
\* the number of consecutive accesses up to the k-th whose delta differed from
\* the stride stored before them
DiffRun(t, k) ==
  IF k = 0 \/ Delta(t, k) = Delta(t, k - 1) THEN 0 ELSE 1 + DiffRun(t, k - 1)

Prefetcher == hierarchy.prefetchStatistics

\* C17: with prefetch enabled, the stride stored is the delta of the latest
\* access, and an access sets isPrefetching when its delta and those of more
\* than three consecutive accesses in all equalled the stride stored before
\* them, clears it when more than three consecutive accesses each had a delta
\* different from the stride stored before them, and keeps it otherwise.
C17_PrefetcherSwitch ==
  /\ [](hierarchy.enablePrefetch => Prefetcher.stride = Delta(trace, Len(trace)))
  /\ [][(hierarchy.enablePrefetch /\ opCount' = opCount + 1 /\ fault' = "none")
          => hierarchy'.prefetchStatistics.isPrefetching
               = IF SameRun(trace', Len(trace')) > 3 THEN TRUE
                 ELSE IF DiffRun(trace', Len(trace')) > 3 THEN FALSE
                 ELSE Prefetcher.isPrefetching]_vars

\* the prefetcher was switched on at the fourth access, stayed on over three
\* stride breaks and was switched off by the fourth
C17_Witness ==
  /\ hierarchy.enablePrefetch
  /\ fault = "none"
  /\ Len(trace) = 8
  /\ SameRun(trace, 4) = 4
  /\ DiffRun(trace, 7) = 3
  /\ DiffRun(trace, 8) = 4
  /\ ~Prefetcher.isPrefetching

\* the memory with addr's page allocated
PageEnsured(w, addr) == [w EXCEPT !.memory = AddPage(w.memory, addr).m]

\* the read or write of addr at L1
LevelOneAccess(w, operation, addr) ==
  IF operation = "r" THEN Read(w, "L1", addr).w ELSE Write(w, "L1", addr, 0)

\* page allocation for addr; if active, page allocation for and fetch of
\* addr + stride; the read or write of addr
OrderedAccess(w, active, stride, operation, addr) ==
  LevelOneAccess(IF active
                 THEN Fetch(PageEnsured(PageEnsured(w, addr),
                                        (addr + stride) % AddrSpace),
                            "L1", (addr + stride) % AddrSpace)
                 ELSE PageEnsured(w, addr),
                 operation, addr)

\* C18: a call process(op, addr) leaves the caches and the memory as do, in
\* this order, the allocation of addr's page, if prefetching was active at
\* entry the allocation of the page of and L1.fetch of addr + the stride stored
\* at entry, and the L1 read or write of addr; the prefetcher has recorded addr
\* by then.  With prefetch disabled there is no fetch and the prefetcher state
\* does not change.
C18_ProcessOrder ==
  [][(last'.op = "process" /\ opCount' = opCount + 1 /\ fault' = "none")
       => /\ [caches |-> caches', memory |-> memory', fault |-> fault',
               invalidAccess |-> invalidAccess']
               = OrderedAccess(World,
                               hierarchy.enablePrefetch /\ Prefetcher.isPrefetching,
                               Prefetcher.stride, last'.ret, last'.addr)
          /\ hierarchy.enablePrefetch
               => hierarchy'.prefetchStatistics.lastAccessAddress = last'.addr
          /\ ~hierarchy.enablePrefetch => hierarchy' = hierarchy]_vars

\* four accesses of one line switch the prefetcher on with stride 0; the fifth,
\* of another line, finds the line fetched before its read: one miss in all
C18_Witness ==
  /\ hierarchy.enablePrefetch
  /\ fault = "none"
  /\ Len(trace) = 5
  /\ SameRun(trace, 4) = 4
  /\ trace[5].addr # trace[4].addr
  /\ trace[5].ret = "r"
  /\ InCache(L1, trace[5].addr)
  /\ Stats("L1").numMiss = 1
  /\ Stats("L1").numHit = 4

(* ---- a strided read trace (SpecTrace) ---- *)
\* the calls so far read the lines 0, 1, .., n - 1 in turn
StridedTrace(n) ==
  /\ Len(trace) = n
  /\ \A k \in 1 .. n : trace[k].addr = (k - 1) * BlockSize /\ trace[k].ret = "r"

\* C19: with prefetch enabled on the default hierarchy, after the reads of the
\* lines 0, 1, 2, 3, 4 in turn (r 0, r 40, r 80, r c0, r 100) the prefetcher is
\* active with the stride of one line, and the line after the last one read
\* (0x140) is in L1.
C19_StridedTracePrefetches ==
  (hierarchy.enablePrefetch /\ StridedTrace(5))
    => /\ Prefetcher.isPrefetching
       /\ Prefetcher.stride = BlockSize
       /\ InCache(L1, 5 * BlockSize)

(* ---- reads of a resident line (Spec) ---- *)
\* the call is a read of L1, direct or through the hierarchy
IsRead(c) == c.op = "read" \/ (c.op = "process" /\ c.ret = "r")

\* the run is two reads of one address on the default hierarchy
TwoReads ==
  /\ ~L1.enableFifo
  /\ ~HasVictim
  /\ ~hierarchy.enablePrefetch
  /\ Len(trace) = 2
  /\ IsRead(trace[1]) /\ IsRead(trace[2])
  /\ trace[1].addr = trace[2].addr

\* C20: on the default hierarchy two reads of one address from a cold start
\* give L1 numRead = 2, numMiss = 1, numHit = 1 and totalCycles = missLatency +
\* hitLatency = 9; a read of an address whose line is in L1 adds one to numRead
\* and to numHit and hitLatency to totalCycles at L1, and nothing else.
C20_ReadOfResidentLine ==
  /\ [](TwoReads
          => /\ Stats("L1") = [numRead |-> 2, numWrite |-> 0, numHit |-> 1,
                               numMiss |-> 1,
                               totalCycles |-> L1.policy.missLatency
                                                 + L1.policy.hitLatency]
             /\ Stats("L1").totalCycles = 9)
  /\ [][(IsRead(last') /\ opCount' = opCount + 1 /\ InCache(L1, last'.addr))
          => caches'["L1"].statistics
               = [Stats("L1") EXCEPT !.numRead = @ + 1, !.numHit = @ + 1,
                                     !.totalCycles = @ + L1.policy.hitLatency]]_vars

\* the second of two reads of one address has hit
C20_Witness ==
  /\ TwoReads
  /\ fault = "none"
  /\ InCache(L1, last.addr)
  /\ installed[LineOf(last.addr)] = 1
  /\ Stats("L1").numHit = 1

(* ---- two neighbouring lines (SpecStride) ---- *)
\* the run is r 0, r BlockSize (r 0, r 40) through the hierarchy
NeighbourReads ==
  /\ Len(trace) = 2
  /\ trace[1].addr = 0 /\ trace[1].ret = "r"
  /\ trace[2].addr = BlockSize /\ trace[2].ret = "r"

\* the line address held by slot i (from 0) of L1, -1 when the slot is invalid
LineIn(i) ==
  IF L1.blocks[i + 1].valid THEN GetAddr(L1.policy, L1.blocks[i + 1]) ELSE -1

\* both accesses of the run missed and cost two miss latencies, 16 cycles
BothMiss ==
  /\ Stats("L1").numRead = 2
  /\ Stats("L1").numMiss = 2
  /\ Stats("L1").numHit = 0
  /\ Stats("L1").totalCycles = 2 * L1.policy.missLatency
  /\ Stats("L1").totalCycles = 16

\* C21 as stated: after r 0, r 40 from a cold start on the default hierarchy
\* both accesses have missed, L1 totalCycles is 16, the two lines share L1 set
\* 0 and the block of set 0 holds the line of 0x40.
C21_NeighboursShareSet ==
  NeighbourReads
    => /\ BothMiss
       /\ GetId(L1.policy, 0) = GetId(L1.policy, BlockSize)
       /\ LineIn(0) = BlockSize

\* C21 amended: both accesses have missed, L1 totalCycles is 16, the two lines
\* are of the sets 0 and 1, and afterwards the block of set 0 holds the line of
\* 0 and the block of set 1 the line of 0x40.
C21_NeighboursInTwoSets ==
  NeighbourReads
    => /\ BothMiss
       /\ GetId(L1.policy, 0) = 0
       /\ GetId(L1.policy, BlockSize) = 1
       /\ LineIn(0) = 0
       /\ LineIn(1) = BlockSize

\* the run with prefetch disabled: both lines are in L1 afterwards
C21_Witness ==
  /\ NeighbourReads
  /\ ~hierarchy.enablePrefetch
  /\ fault = "none"
  /\ InCache(L1, 0)
  /\ InCache(L1, BlockSize)

(* ---- two lines of one set with a victim cache (SpecVictim) ---- *)
\* the calls so far are reads and writes that alternate between two lines of
\* one set of L1
Alternating ==
  /\ TraceOf({"read", "write"})
  /\ \A k \in 1 .. Len(trace) - 1 :
       /\ LineOf(trace[k + 1].addr) # LineOf(trace[k].addr)
       /\ GetId(L1.policy, trace[k + 1].addr) = GetId(L1.policy, trace[k].addr)
  /\ \A k \in 1 .. Len(trace) - 2 :
       LineOf(trace[k + 2].addr) = LineOf(trace[k].addr)

\* C22: on the direct-mapped L1 with the victim cache enabled, in a run that
\* alternates between two lines of one set, every access after the first to
\* each line is served by the victim cache and reported as a hit by
\* getStatistics(): the observed numMiss stays at 2, the observed numHit is the
\* number of the later accesses.
C22_AlternationHitsVictim ==
  (fault = "none" /\ HasVictim /\ Alternating /\ Len(trace) >= 2)
    => /\ GetStatistics(World, "L1").numMiss = 2
       /\ GetStatistics(World, "L1").numHit = Len(trace) - 2
       /\ Stats(L1.victimCache).numHit = Len(trace) - 2
       /\ Stats("L1").numMiss = Len(trace)

\* four alternating accesses, a write among them: two were served by the
\* victim cache
C22_Witness ==
  /\ fault = "none"
  /\ HasVictim
  /\ Alternating
  /\ Len(trace) = 4
  /\ \E k \in 1 .. 4 : trace[k].op = "write"
  /\ GetStatistics(World, "L1").numHit = 2

(* ---- an instruction cache discards its writes (SpecInstr) ---- *)
\* C23: reads and writes of an instruction cache leave every byte of the
\* memory as it was, and a read of an address whose line is not in the cache,
\* evicted after a write included, returns the byte of the memory.
C23_InstructionWritesDropped ==
  [][/\ memory' = memory
     /\ (last'.op = "read" /\ opCount' = opCount + 1 /\ ~InCache(L1, last'.addr))
          => last'.ret = MemGetByte(memory, last'.addr)]_vars

(* ---- the policy of the victim cache (SpecVictimPolicy) ---- *)
\* C24: the victim cache created for a parent cache is fully associative
\* (associativity = blockNum, one set), of the fixed size (8 KiB, two default
\* blocks here), with hitLatency 1 and missLatency 8, and its blockSize is the
\* blockSize of the parent, for every valid parent policy.
C24_VictimPolicy ==
  (last.op = "setVictimCache" /\ last.ret)
    => LET policy == caches[L1.victimCache].policy
       IN  /\ policy.associativity = policy.blockNum
           /\ policy.cacheSize = 2 * BlockSize
           /\ policy.blockNum * policy.blockSize = policy.cacheSize
           /\ policy.hitLatency = 1
           /\ policy.missLatency = 8
           /\ policy.blockSize = L1.policy.blockSize

(* ---- the victim cache on a miss of its parent (SpecVictim) ---- *)
\* the step is a completed call on L1, which has a victim cache, that misses
MissWithVictim ==
  /\ HasVictim
  /\ opCount' = opCount + 1
  /\ fault' = "none"
  /\ last'.op \in {"read", "write", "fetch"}
  /\ ~InCache(L1, last'.addr)

\* the counters of cache n after the step are those before, with one access of
\* the kind of the call, hits hits, misses misses and cycles cycles added
Counted(n, hits, misses, cycles) ==
  caches'[n].statistics
    = [Stats(n) EXCEPT
         !.numRead = @ + (IF last'.op = "write" THEN 0 ELSE 1),
         !.numWrite = @ + (IF last'.op = "write" THEN 1 ELSE 0),
         !.numHit = @ + hits,
         !.numMiss = @ + misses,
         !.totalCycles = @ + cycles]

\* the bytes of line's block in L1 after the step are those cache src held
\* before it, but for the byte the call has written
InstalledFrom(src, line) ==
  \A k \in 0 .. BlockSize - 1 :
    ByteAt(caches'["L1"], line + k)
      = IF last'.op = "write" /\ last'.addr = line + k THEN last'.val
        ELSE ByteAt(caches[src], line + k)

\* the accesses cache n has counted
Accesses(c) == c.statistics.numRead + c.statistics.numWrite

\* the lower cache is not asked for the line: it counts no read, it counts a
\* write only for the line L1 replaces (which the victim cache allocates), the
\* line does not come into it and its block of the line is not touched
LowerNotAsked(line) ==
  LET lower == L1.lowerCache
      before == GetBlockId(caches[lower], line)
      after == GetBlockId(caches'[lower], line)
  IN  /\ caches'[lower].statistics.numRead = Stats(lower).numRead
      /\ Accesses(caches'[lower]) - Accesses(caches[lower])
           = IF SetFull(L1, line) THEN 1 ELSE 0
      /\ before < 0 => after < 0
      /\ after >= 0 => caches'[lower].blocks[after + 1] = caches[lower].blocks[before + 1]

\* C25: when L1, with a victim cache, misses on a line the victim holds, the
\* victim counts one access of the kind of the call, one hit and hitLatency,
\* L1 installs the bytes of the victim's copy, the victim no longer holds the
\* line and the lower cache is not asked for it; when the victim does not hold
\* the line, the victim counts one access, one miss and missLatency, and the
\* lower cache is asked and gives the bytes.
C25_VictimProbe ==
  [][MissWithVictim
       => LET line == LineOf(last'.addr)
              v == L1.victimCache
          IN  IF InCache(caches[v], line)
              THEN /\ Counted(v, 1, 0, caches[v].policy.hitLatency)
                   /\ InstalledFrom(v, line)
                   /\ ~InCache(caches'[v], line)
                   /\ LowerNotAsked(line)
              ELSE /\ Counted(v, 0, 1, caches[v].policy.missLatency)
                   /\ IF last'.op = "write"
                      THEN caches'[L1.lowerCache].statistics.numWrite
                             > Stats(L1.lowerCache).numWrite
                      ELSE caches'[L1.lowerCache].statistics.numRead
                             = Stats(L1.lowerCache).numRead + 1
                   /\ InCache(caches[L1.lowerCache], line)
                        => InstalledFrom(L1.lowerCache, line)]_vars

(* ---- slots, tags and set ids ---- *)
\* slot i (from 0) of cache c has the set id of its place, and when valid the
\* tag and set id that decode from its base address
SlotConsistent(c, i) ==
  LET block == c.blocks[i + 1]
      base == GetAddr(c.policy, block)
  IN  /\ block.id = i \div c.policy.associativity
      /\ block.valid => /\ GetTag(c.policy, base) = block.tag
                        /\ GetId(c.policy, base) = block.id

\* C26: in every cache, slot i has the set id i / associativity, every valid
\* block has the tag and the set id of its reconstructed base address
\* (tag << (offsetBits+idBits)) | (setId << offsetBits), and the lookup never
\* ends in the "Inconsistent ID" error.
C26_SlotsConsistent ==
  /\ \A n \in Levels :
       \A i \in 0 .. caches[n].policy.blockNum - 1 : SlotConsistent(caches[n], i)
  /\ fault # "InconsistentId"

\* L1 and, in its second set, the set-associative L2 hold valid lines
C26_Witness ==
  /\ fault = "none"
  /\ \E i \in 0 .. L1.policy.blockNum - 1 : L1.blocks[i + 1].valid
  /\ \E i \in 0 .. caches["L2"].policy.blockNum - 1 :
       /\ caches["L2"].blocks[i + 1].valid
       /\ caches["L2"].blocks[i + 1].id = 1
       /\ caches["L2"].blocks[i + 1].tag > 0

(* ---- address decoding (SpecDecode) ---- *)
\* a cache of any policy that satisfies the five checks
InitDecode ==
  /\ \E p \in Policies :
       /\ SatisfiesChecks(p)
       /\ caches = [n \in {"L1"} |-> NewCache(p, "null", FALSE)]
  /\ memory = NewMemory
  /\ fault = "none"
  /\ hierarchy = [enablePrefetch |-> FALSE, prefetchStatistics |-> NewPrefetchStatistics]
  /\ opCount = 0
  /\ last = NoCall
  /\ written = [a \in Addrs |-> -1]
  /\ trace = << >>
  /\ installed = [l \in Lines |-> 0]
  /\ shiftWraps \in BOOLEAN
  /\ invalidAccess = FALSE

\* getTag, getId and getOffset of an address: ret is the triple decoded
DoDecode ==
  \E a \in 0 .. AddrSpace - 1 :
    /\ Len(trace) < 2
    /\ last' = Call("decode", a, 0,
                    [tag |-> GetTag(L1.policy, a), id |-> GetId(L1.policy, a),
                     offset |-> GetOffset(L1.policy, a)])
    /\ trace' = Append(trace, last')
    /\ opCount' = opCount + 1
    /\ UNCHANGED <<caches, memory, fault, hierarchy, written, installed, shiftWraps, invalidAccess>>

NextDecode == DoDecode
SpecDecode == InitDecode /\ [][NextDecode]_vars

\* (tag << (offsetBits+idBits)) | (set << offsetBits) | offset, the fields
\* being disjoint
Recombined(p, d) ==
  d.tag * 2 ^ (Log2i(p.blockSize) + Log2i(p.blockNum \div p.associativity))
  + d.id * 2 ^ Log2i(p.blockSize)
  + d.offset

\* C27: for every policy that satisfies the checks and every address, the
\* triple (tag, set, offset) decoded recombines to the address, with set below
\* the number of sets and offset below the block size, and two different
\* addresses decode to different triples.
C27_DecodingBijective ==
  /\ \A k \in 1 .. Len(trace) :
       /\ Recombined(L1.policy, trace[k].ret) = trace[k].addr
       /\ trace[k].ret.id < L1.policy.blockNum \div L1.policy.associativity
       /\ trace[k].ret.offset < L1.policy.blockSize
  /\ \A j, k \in 1 .. Len(trace) :
       trace[j].addr # trace[k].addr => trace[j].ret # trace[k].ret

\* C28: a call of process with an operation other than 'r' and 'w' ends in a
\* fatal error and performs no access: the statistics and the blocks of L1, L2
\* and L3 are those before the call, the prefetcher enabled or not.
C28_IllegalOperationNoAccess ==
  [][(last'.op = "process" /\ last'.ret = "x" /\ opCount' = opCount + 1)
       => /\ fault' = "IllegalOperation"
          /\ \A n \in {"L1", "L2", "L3"} :
               /\ caches'[n].statistics = caches[n].statistics
               /\ caches'[n].blocks = caches[n].blocks]_vars

\* the valid slots of a cache
ValidSlots(c) == {i \in 0 .. c.policy.blockNum - 1 : c.blocks[i + 1].valid}

RECURSIVE LatestWrite(_, _)
\* the byte of the latest write to addr among the first k calls, 0 if there is none
LatestWrite(addr, k) ==
  IF k = 0 THEN 0
  ELSE IF trace[k].op = "write" /\ trace[k].addr = addr THEN trace[k].val
  ELSE LatestWrite(addr, k - 1)

\* C30: in a hierarchy of data caches, for every sequence of read, write and
\* fetch calls on L1 at addresses whose pages exist, a read of an address
\* returns the byte of the most recent write to it, or 0 if it was never
\* written, whatever was evicted and written back in between.
C30_ReadReturnsLatestWrite ==
  (fault = "none" /\ last.op = "read" /\ Len(trace) >= 1)
    => last.ret = LatestWrite(last.addr, Len(trace) - 1)

RECURSIVE BelowByte(_, _)
\* the byte of addr that the levels below cache n hold now: that of the nearest
\* lower cache holding the line, that of the memory if none does
BelowByte(n, addr) ==
  LET l == caches[n].lowerCache
  IN  IF l = "null" THEN MemGetByte(memory, addr)
      ELSE IF InCache(caches[l], addr) THEN ByteAt(caches[l], addr)
      ELSE BelowByte(l, addr)

\* the valid block of slot i of cache n, not modified, has the bytes of the
\* levels below
CleanAsBelow(n, i) ==
  LET c == caches[n]
      block == c.blocks[i + 1]
  IN  (block.valid /\ ~block.modified)
        => \A k \in 0 .. block.size - 1 :
             block.data[k + 1] = BelowByte(n, GetAddr(c.policy, block) + k)

\* C31: in every cache of the hierarchy, the victim cache included, every valid
\* block that is not modified holds exactly the bytes the levels below it hold
\* now for its line.
C31_CleanBlocksAsBelow ==
  fault = "none"
    => \A n \in Levels : \A i \in 0 .. caches[n].policy.blockNum - 1 : CleanAsBelow(n, i)

(* ---- counters between neighbouring levels (SpecProcess) ---- *)
\* the call of the step is a completed process call
ProcessStep == opCount' = opCount + 1 /\ last'.op = "process" /\ fault' = "none"

\* the growth of a counter of cache n in the step
Grows(n, counter) == caches'[n].statistics[counter] - caches[n].statistics[counter]

\* the step counts one access of the kind of the call at cache n: a read for
\* 'r', a write for 'w', and one hit or one miss
CountsOneAccess(n) ==
  /\ Grows(n, "numRead") = IF last'.ret = "r" THEN 1 ELSE 0
  /\ Grows(n, "numWrite") = IF last'.ret = "w" THEN 1 ELSE 0
  /\ Grows(n, "numHit") + Grows(n, "numMiss") = 1

\* the step leaves numRead, numWrite, numHit and numMiss of cache n alone
CountsNothing(n) ==
  \A counter \in {"numRead", "numWrite", "numHit", "numMiss"} : Grows(n, counter) = 0

\* the step replaces a modified block of L1: its bytes are written to L2
WritesBack == caches'["L1"].dirtyEvictions = L1.dirtyEvictions + 1

\* C32: without prefetch and without victim cache, after every completed
\* process call L2.numRead + L2.numWrite = L1.numMiss: a call that misses in L1
\* counts one read at L2 if it is a read and one write if it is a write, a call
\* that hits counts nothing at L2, and the write-back of a modified block of
\* L1 into L2 adds nothing to L2's counters.
C32_LevelTwoCountsLevelOneMisses ==
  /\ [](Stats("L2").numRead + Stats("L2").numWrite = Stats("L1").numMiss)
  /\ [][ProcessStep
          => IF Grows("L1", "numMiss") = 1 THEN CountsOneAccess("L2")
             ELSE CountsNothing("L2")]_vars

\* a write, then a read that misses in L1 and writes the modified block back
\* to L2, which holds the line
C32_Witness ==
  /\ fault = "none"
  /\ Len(trace) = 2
  /\ trace[1].ret = "w"
  /\ trace[2].ret = "r"
  /\ LineOf(trace[1].addr) # LineOf(trace[2].addr)
  /\ L1.dirtyEvictions = 1
  /\ ByteAt(caches["L2"], trace[1].addr) = 0
  /\ Stats("L1").numMiss = 2
  /\ Stats("L2").numRead = 1
  /\ Stats("L2").numWrite = 1

\* C33: without prefetch and without victim cache, after every completed
\* process call L3.numRead + L3.numWrite = L2.numMiss: every access counted at
\* L3 comes from a miss counted at L2.
C33_LevelThreeCountsLevelTwoMisses ==
  fault = "none" => Stats("L3").numRead + Stats("L3").numWrite = Stats("L2").numMiss

(* ---- the memory is accessed on allocated pages only (SpecPages) ---- *)
\* C34: in a run of process calls, the prefetcher enabled or not, getByte and
\* setByte of the memory are never called on an address without page: not by
\* the fill of a block, not by the fill of addr + stride of the prefetcher (the
\* sum taken modulo 2^32), not by the write-back of a modified block to the
\* memory.
C34_PagesExist == ~invalidAccess

\* four accesses of address 0 start the prefetcher; the fifth call sets the
\* stride to its address, and the sixth prefetches its address plus that
\* stride, a sum beyond 2^32 - 1: the line of the wrapped sum, which no call
\* accessed, is in L3, filled from its page
C34_Witness ==
  /\ fault = "none"
  /\ hierarchy.enablePrefetch
  /\ Len(trace) = 6
  /\ \A k \in 1 .. 4 : trace[k].addr = 0
  /\ trace[5].addr + trace[6].addr >= AddrSpace
  /\ \A k \in 1 .. 6 :
       LineOf(trace[k].addr) # LineOf((trace[5].addr + trace[6].addr) % AddrSpace)
  /\ InCache(caches["L3"], (trace[5].addr + trace[6].addr) % AddrSpace)
  /\ IsPageExist(memory, (trace[5].addr + trace[6].addr) % AddrSpace)

(* ---- the misses reported with a victim cache (SpecVictim) ---- *)
\* C35: for a cache with a victim cache, after any sequence of read, write and
\* fetch the victim cache's numHit is at most the numMiss stored in the parent,
\* and the numMiss that getStatistics returns never decreases from one
\* operation to the next.
C35_ReportedMissesGrow ==
  /\ [](HasVictim => Stats(L1.victimCache).numHit <= Stats("L1").numMiss)
  /\ [][HasVictim
          => GetStatistics([caches |-> caches', memory |-> memory', fault |-> fault',
                            invalidAccess |-> invalidAccess'], "L1").numMiss
               >= GetStatistics(World, "L1").numMiss]_vars

\* the base addresses of the lines valid in cache c
ValidLines(c) ==
  {GetAddr(c.policy, c.blocks[i + 1]) : i \in ValidSlots(c)}

SetMates(c, i, j) ==
  /\ i # j
  /\ i \div c.policy.associativity = j \div c.policy.associativity
  /\ c.blocks[i + 1].valid
  /\ c.blocks[j + 1].valid

\* C37: in every cache, in every state, no two valid slots of one set hold the
\* same tag: a line is resident in at most one slot of a cache.
C37_LineResidentOnce ==
  \A n \in Levels :
    \A i, j \in 0 .. caches[n].policy.blockNum - 1 :
      SetMates(caches[n], i, j) => caches[n].blocks[i + 1].tag # caches[n].blocks[j + 1].tag

\* two lines fill a set of the cache, and the last call fetched or accessed
\* again a line that was resident
C37_Witness ==
  /\ fault = "none"
  /\ \E i, j \in 0 .. L1.policy.blockNum - 1 : SetMates(L1, i, j)
  /\ Len(trace) >= 3
  /\ InCache(L1, last.addr)
  /\ installed[LineOf(last.addr)] < Len(trace)
  /\ last.op = "fetch"

(* ---- the victim cache and the parent's lower cache (SpecVictim) ---- *)
\* the call was served by the victim cache: the parent's miss found the line
\* there, so the parent itself made no access to its lower cache
ServedByVictim ==
  /\ HasVictim
  /\ fault = "none"
  /\ fault' = "none"
  /\ caches'[L1.victimCache].statistics.numHit = caches[L1.victimCache].statistics.numHit + 1

\* C38: the victim cache is outside the lower-level chain: giving a line back
\* to the parent, taking the line the parent evicts and replacing its own lines
\* access the parent's lower cache never, so a call served by the victim cache
\* leaves the statistics and the blocks of the parent's lower cache unchanged.
C38_VictimLeavesLowerCache ==
  [][ServedByVictim => caches'[L1.lowerCache] = caches[L1.lowerCache]]_vars

(* ---- the flags of the hierarchy (SpecProcess) ---- *)
\* C39: a hierarchy built with the FIFO flag set chooses the block to replace
\* by FIFO in its caches, and one built with the victim-cache flag set has a
\* victim cache attached to L1.
C39_FlagsConfigureCaches ==
  /\ hierarchy.enableFifo => \A n \in {"L1", "L2", "L3"} : caches[n].enableFifo
  /\ hierarchy.enableVictimCache => (L1.enableVictimCache /\ L1.victimCache # "null")

(* ---- a block load copies the whole block (Spec) ---- *)
\* the last call, a read or a fetch, loaded the line of its address into L1,
\* from the lower level: L1 has no victim cache
LoadedByLast ==
  /\ fault = "none"
  /\ ~HasVictim
  /\ last.op \in {"read", "fetch"}
  /\ Len(trace) >= 1
  /\ installed[LineOf(last.addr)] = Len(trace)

\* C40: for every address, those of the last block of the address space
\* included, a block load copies all blockSize bytes of the aligned block from
\* the source level: the block installed equals the source's data byte for byte.
C40_LoadCopiesWholeBlock ==
  LoadedByLast
    => \A k \in 0 .. BlockSize - 1 :
         ByteAt(L1, LineOf(last.addr) + k) = BelowByte("L1", LineOf(last.addr) + k)

====
